---- MODULE Spec2Model ----
(***************************************************************************)
(* A model of the EEIA edge control-plane core:                            *)
(*   - the policy registry (PolicyStore) and the routing engine            *)
(*     (HybridRouter) of src/src/eeia/core/router.py;                      *)
(*   - the durable offline queue (OfflineCache) of                         *)
(*     src/src/eeia/core/cache.py, a table of an SQLite database, with    *)
(*     its redelivery protocol and its concurrent callers;                 *)
(*   - the device keys, the packet signatures and the entry gate of        *)
(*     src/src/eeia/security/packet_security.py.                           *)
(* Python's Optional[T] is modelled as a sequence of length at most one:   *)
(* None is <<>> and a present value x is <<x>>.                            *)
(***************************************************************************)
EXTENDS Integers, Sequences, FiniteSets, TLC

VARIABLES
    policies,         \* PolicyStore._policies: the ordered list of Policy objects
    offline_packets,  \* rows of table offline_packets: records [id, payload_json]
    sqlite_sequence,  \* the AUTOINCREMENT high-water mark SQLite keeps for the table
    enqueued,         \* history: enqueued[i] is the Packet that was given sequence number i
    expunged,         \* history: ids named by an executed delete_many, or cleared, after assignment
    ret,              \* the last call: [op, arg, value]
    repeated,         \* history: the last call has the operation and argument of the call before it
    displaced,        \* history: the position the last upsert found its policy_id at (0: nowhere)
    worker,           \* the redelivery worker: its batch, the attempts made, what was forwarded
    writers,          \* the callers of enqueue: each one's position in the call
    db_lock,          \* the write lock of the SQLite database file: its holder, if any
    threads,          \* the threads calling the policy registry: each one's position in its call
    keys_by_device,   \* DeviceKeyStore._keys_by_device: the key stored for each device_id
    counters,         \* DomainTrafficMetrics._counters: the tallies kept per (domain, env)
    ml_scorer,        \* the PacketScorer the application was created with, if any
    constructed,      \* the Packet object a caller holds: its fields as they are now
    mutators          \* the threads changing the policy registry: each one's position in its call

vars ==
    <<policies, offline_packets, sqlite_sequence, enqueued, expunged, ret, repeated, displaced,
      worker, writers, db_lock, threads, keys_by_device, counters, ml_scorer, constructed,
      mutators>>

None == <<>>
Some(x) == <<x>>

\* A call returns a value or raises an exception.
Returned(value) == <<"return", value>>
Raised(exception) == <<"raise", exception>>

-----------------------------------------------------------------------------
(* Domain model: src/src/eeia/core/models.py                               *)

Environment == {"ground", "water", "air", "body"}

Domain ==
    {"medical", "industrial", "transport", "agriculture", "climate", "energy", "generic"}

PacketPriority == {"low", "normal", "high", "critical"}

PacketType == {"telemetry", "alert", "control", "heartbeat"}

\* A validated HttpUrl object holding the text s.
HttpUrl(s) == [url |-> s]

\* str(url) of an HttpUrl object: the text it holds.
str(u) == u.url

\* The fields of a Policy that the registry and the router read.  name and the
\* three require_* flags are read by neither and are left out.
Policy(id, env, dom, prio, endpoint, ts, obj) ==
    [policy_id |-> id,
     match_environment |-> env,
     match_domain |-> dom,
     min_priority |-> prio,
     target_endpoint |-> endpoint,
     store_in_timeseries |-> ts,
     store_in_object_storage |-> obj]

\* The fields of a Packet that the registry and the router read.
RoutedPacket(env, dom, type, prio) ==
    [env |-> env, domain |-> dom, packet_type |-> type, priority |-> prio]

-----------------------------------------------------------------------------
(* Policy registry: PolicyStore                                            *)

MutPriorityOrder(priority) ==
    CASE priority = "low" -> 0
      [] priority = "normal" -> 2
      [] priority = "high" -> 1
      [] priority = "critical" -> 3

_priority_order(priority) ==
    CASE priority = "low" -> 0
      [] priority = "normal" -> 1
      [] priority = "high" -> 2
      [] priority = "critical" -> 3

\* The body of the loop of match_for_packet for one policy: TRUE when none of
\* the three `continue` branches is taken.
PassesPredicates(policy, packet) ==
    /\ ~(policy.match_environment /= None /\ policy.match_environment /= Some(packet.env))
    /\ ~(policy.match_domain /= None /\ policy.match_domain /= Some(packet.domain))
    /\ ~(/\ policy.min_priority /= None
         /\ _priority_order(packet.priority) < _priority_order(policy.min_priority[1]))

RECURSIVE ScanFrom(_, _, _)
ScanFrom(ps, i, packet) ==
    IF i > Len(ps) THEN None
    ELSE IF PassesPredicates(ps[i], packet) THEN Some(ps[i])
    ELSE ScanFrom(ps, i + 1, packet)

RECURSIVE MutScanLast(_, _, _)
MutScanLast(ps, i, packet) ==
    IF i > Len(ps) THEN None
    ELSE LET rest == MutScanLast(ps, i + 1, packet)
         IN  IF rest /= None THEN rest
             ELSE IF PassesPredicates(ps[i], packet) THEN Some(ps[i]) ELSE None

MutMatchLast(ps, packet) == MutScanLast(ps, 1, packet)

match_for_packet(ps, packet) == ScanFrom(ps, 1, packet)

remove(ps, policy_id) == SelectSeq(ps, LAMBDA p : p.policy_id /= policy_id)

MutUpsertInPlace(ps, policy) ==
    IF \E i \in 1..Len(ps) : ps[i].policy_id = policy.policy_id
    THEN [i \in 1..Len(ps) |-> IF ps[i].policy_id = policy.policy_id THEN policy ELSE ps[i]]
    ELSE Append(ps, policy)

upsert(ps, policy) == Append(remove(ps, policy.policy_id), policy)

all(ps) == ps

-----------------------------------------------------------------------------
(* Routing engine: HybridRouter                                            *)

RoutingDecision(packet, policy, target, ts, obj, forward, reasons) ==
    [packet |-> packet,
     policy |-> policy,
     target_endpoint |-> target,
     store_in_timeseries |-> ts,
     store_in_object_storage |-> obj,
     should_forward |-> forward,
     reasons |-> reasons]

\* The reason tags: f"matched_policy:{policy_id}" and "no_matching_policy".
MatchedPolicyTag(policy_id) == <<"matched_policy", policy_id>>
NoMatchingPolicyTag == <<"no_matching_policy">>

MutRouteHoldBack(ps, packet) ==
    LET policy == match_for_packet(ps, packet)
    IN  IF policy /= None
        THEN RoutingDecision(packet, policy,
                 IF policy[1].target_endpoint /= None
                 THEN Some(str(policy[1].target_endpoint[1])) ELSE None,
                 policy[1].store_in_timeseries, policy[1].store_in_object_storage,
                 TRUE, <<MatchedPolicyTag(policy[1].policy_id)>>)
        ELSE RoutingDecision(packet, None, None,
                 packet.packet_type \in {"telemetry", "heartbeat", "alert"},
                 packet.packet_type = "alert",
                 packet.packet_type /= "control", <<NoMatchingPolicyTag>>)

MutRouteDefaultFlags(ps, packet) ==
    LET policy == match_for_packet(ps, packet)
    IN  IF policy /= None
        THEN RoutingDecision(packet, policy,
                 IF policy[1].target_endpoint /= None
                 THEN Some(str(policy[1].target_endpoint[1])) ELSE None,
                 policy[1].store_in_timeseries, policy[1].store_in_object_storage,
                 TRUE, <<MatchedPolicyTag(policy[1].policy_id)>>)
        ELSE RoutingDecision(packet, None, None,
                 packet.packet_type \in {"telemetry", "heartbeat"},
                 packet.packet_type = "alert",
                 TRUE, <<NoMatchingPolicyTag>>)

MutRouteFieldDefaults(ps, packet) ==
    LET policy == match_for_packet(ps, packet)
    IN  IF policy /= None
        THEN RoutingDecision(packet, policy,
                 IF policy[1].target_endpoint /= None
                 THEN Some(str(policy[1].target_endpoint[1])) ELSE None,
                 TRUE, FALSE,
                 TRUE, <<MatchedPolicyTag(policy[1].policy_id)>>)
        ELSE RoutingDecision(packet, None, None,
                 packet.packet_type \in {"telemetry", "heartbeat", "alert"},
                 packet.packet_type = "alert",
                 TRUE, <<NoMatchingPolicyTag>>)

route(ps, packet) ==
    LET policy == match_for_packet(ps, packet)
    IN  IF policy /= None
        THEN RoutingDecision(packet, policy,
                 IF policy[1].target_endpoint /= None
                 THEN Some(str(policy[1].target_endpoint[1])) ELSE None,
                 policy[1].store_in_timeseries, policy[1].store_in_object_storage,
                 TRUE, <<MatchedPolicyTag(policy[1].policy_id)>>)
        ELSE RoutingDecision(packet, None, None,
                 packet.packet_type \in {"telemetry", "heartbeat", "alert"},
                 packet.packet_type = "alert",
                 TRUE, <<NoMatchingPolicyTag>>)

RECURSIVE add_policies(_, _)
add_policies(ps, list) ==
    IF list = <<>> THEN ps ELSE add_policies(upsert(ps, Head(list)), Tail(list))

RECURSIVE RemoveEach(_, _)
RemoveEach(ps, list) ==
    IF list = <<>> THEN ps ELSE RemoveEach(remove(ps, Head(list).policy_id), Tail(list))

clear_policies(ps) == RemoveEach(ps, all(ps))

-----------------------------------------------------------------------------
(* Inputs of the registry and router operations                            *)

PolicyIds == {"policy-1", "policy-2", "policy-3"}

\* Longest list handed to add_policies.
MaxBatch == 3

Endpoints == {HttpUrl("https://medical-core.example/api/events")}

\* (match_environment, match_domain, min_priority) of the policies registered.
MatchChoices ==
    {<<None, None, None>>, <<Some("ground"), Some("medical"), Some("high")>>}

\* (target_endpoint, store_in_timeseries, store_in_object_storage).
OutcomeChoices ==
    {<<Some(e), TRUE, FALSE>> : e \in Endpoints} \cup {<<None, FALSE, TRUE>>}

RouterPolicies ==
    {Policy(id, m[1], m[2], m[3], o[1], o[2], o[3]) :
        id \in PolicyIds, m \in MatchChoices, o \in OutcomeChoices}

\* (env, domain, priority) of the packets routed: one the specific predicates
\* accept, and one failing each of the three predicates alone.
PacketKeys ==
    {<<"ground", "medical", "critical">>, <<"ground", "medical", "normal">>,
     <<"water", "medical", "critical">>, <<"ground", "generic", "critical">>}

RouterPackets ==
    {RoutedPacket(k[1], k[2], t, k[3]) : k \in PacketKeys, t \in PacketType}

\* The policies handed to add_policies in bulk: one version of each policy id.
BatchPolicies ==
    {p \in RouterPolicies : p.match_environment = None /\ p.target_endpoint /= None}

PolicyBatches ==
    UNION {[1..n -> BatchPolicies] : n \in 0..MaxBatch}

Call(op, arg, value) == [op |-> op, arg |-> arg, value |-> value]

\* The call (op, arg) returns value: ret and the history of calls.
Result(op, arg, value) ==
    /\ ret' = Call(op, arg, value)
    /\ repeated' = (ret.op = op /\ ret.arg = arg)

\* The devices keys are registered for, the callers of enqueue, and the threads
\* on the policy registry.
Devices == {"dev-000001", "dev-000002"}
Callers == {"caller-1", "caller-2"}
Threads == {"mutator", "matcher"}
MutatorThreads == {"thread-1", "thread-2"}

\* No redelivery round, no enqueue and no registry call is in progress, the key
\* store is the empty DeviceKeyStore(), nothing was counted, the application
\* has no scorer and no caller holds a packet.
AtRest ==
    /\ worker = [pc |-> "idle", limit |-> 0, batch |-> <<>>, next |-> 1, ok_ids |-> {},
                 failed |-> {}, forwarded |-> {}, forwarded_again |-> {}]
    /\ writers = [c \in Callers |-> [pc |-> "ready", packet |-> None, row |-> None]]
    /\ db_lock = None
    /\ threads = [t \in Threads |-> [pc |-> "idle"]]
    /\ keys_by_device = [d \in Devices |-> None]
    /\ counters = <<>>
    /\ ml_scorer = None
    /\ constructed = None
    /\ mutators = [t \in MutatorThreads |-> [pc |-> "idle"]]

\* A call made by a single caller on objects no other call is using: it
\* returns value, and touches nothing of the concurrent callers or the key store.
Returns(op, arg, value) ==
    /\ Result(op, arg, value)
    /\ UNCHANGED <<worker, writers, db_lock, threads, keys_by_device>>
    /\ UNCHANGED <<counters, ml_scorer, constructed, mutators>>

\* Position of the first policy with this id, 0 when there is none.
PositionOf(ps, policy_id) ==
    IF \E i \in 1..Len(ps) : ps[i].policy_id = policy_id
    THEN CHOOSE i \in 1..Len(ps) :
            /\ ps[i].policy_id = policy_id
            /\ \A j \in 1..(i - 1) : ps[j].policy_id /= policy_id
    ELSE 0

-----------------------------------------------------------------------------
(* Actions of the registry and the router                                  *)

QueueUnchanged ==
    /\ UNCHANGED <<offline_packets, sqlite_sequence, enqueued, expunged>>
    /\ displaced' = 0

Upsert(policy) ==
    /\ policies' = upsert(policies, policy)
    /\ displaced' = PositionOf(policies, policy.policy_id)
    /\ Returns("upsert", Some(policy), None)
    /\ UNCHANGED <<offline_packets, sqlite_sequence, enqueued, expunged>>

Remove(policy_id) ==
    /\ policies' = remove(policies, policy_id)
    /\ Returns("remove", Some(policy_id), None)
    /\ QueueUnchanged

All ==
    /\ Returns("all", None, Some(all(policies)))
    /\ UNCHANGED policies
    /\ QueueUnchanged

MatchForPacket(packet) ==
    /\ Returns("match_for_packet", Some(packet), Some(match_for_packet(policies, packet)))
    /\ UNCHANGED policies
    /\ QueueUnchanged

MutRouteMoveToFront(packet) ==
    /\ Returns("route", Some(packet), Some(route(policies, packet)))
    /\ policies' =
          IF match_for_packet(policies, packet) = None THEN policies
          ELSE match_for_packet(policies, packet) \o
                  remove(policies, match_for_packet(policies, packet)[1].policy_id)
    /\ QueueUnchanged

Route(packet) ==
    /\ Returns("route", Some(packet), Some(route(policies, packet)))
    /\ UNCHANGED policies
    /\ QueueUnchanged

AddPolicies(list) ==
    /\ policies' = add_policies(policies, list)
    /\ Returns("add_policies", None, None)
    /\ QueueUnchanged

ClearPolicies ==
    /\ policies' = clear_policies(policies)
    /\ Returns("clear_policies", None, None)
    /\ QueueUnchanged

QueueInit ==
    /\ offline_packets = {}
    /\ sqlite_sequence = 0
    /\ enqueued = <<>>
    /\ expunged = {}

\* The collections PolicyStore(policies) is constructed with: none (as in
\* create_app), or two policies given under one policy_id, which __init__
\* stores as they come.
InitialCollections ==
    {<<>>} \cup
    {<<p, q>> : p, q \in {r \in RouterPolicies :
                              r.policy_id = "policy-1" /\ r.target_endpoint = None}}

InitRouter ==
    /\ AtRest
    /\ policies \in InitialCollections
    /\ ret = Call("init", None, None)
    /\ repeated = FALSE
    /\ displaced = 0
    /\ QueueInit

NextRouter ==
    \/ \E policy \in RouterPolicies : Upsert(policy)
    \/ \E policy_id \in PolicyIds : Remove(policy_id)
    \/ All
    \/ \E packet \in RouterPackets : MatchForPacket(packet)
    \/ \E packet \in RouterPackets : Route(packet)
    \/ \E list \in PolicyBatches : AddPolicies(list)
    \/ ClearPolicies

SpecRouter == InitRouter /\ [][NextRouter]_vars

-----------------------------------------------------------------------------
(* One registered policy against one packet, over the whole enumerations   *)

Optional(S) == {None} \cup {Some(x) : x \in S}

\* The domains taken here; the code compares domains for identity only.
PredicateDomains == {"medical", "industrial", "generic"}

\* Every combination of the three match predicates, under one id and outcome.
PredicatePolicies ==
    {Policy("policy-1", e, d, p, Some(HttpUrl("https://medical-core.example/api/events")),
            TRUE, TRUE) :
        e \in Optional(Environment), d \in Optional(PredicateDomains),
        p \in Optional(PacketPriority)}

PredicatePackets ==
    {RoutedPacket(e, d, "alert", p) :
        e \in Environment, d \in PredicateDomains, p \in PacketPriority}

\* PolicyStore([policy]): a registry constructed with a single policy.
InitMatch ==
    /\ AtRest
    /\ policies \in {<<q>> : q \in PredicatePolicies}
    /\ ret = Call("init", None, None)
    /\ repeated = FALSE
    /\ displaced = 0
    /\ QueueInit

NextMatch ==
    \/ \E packet \in PredicatePackets : MatchForPacket(packet)
    \/ \E packet \in PredicatePackets : Route(packet)

SpecMatch == InitMatch /\ [][NextMatch]_vars

-----------------------------------------------------------------------------
(* Offline queue: OfflineCache on an SQLite table                          *)

\* The fields of a Packet that the queue stores and restores.
CachedFields(packet_id, device_id, created_at, data) ==
    [packet_id |-> packet_id, device_id |-> device_id,
     created_at |-> created_at, size_bytes |-> 0, data |-> data]

\* Values of the payload map `data`, by Python type.
PyInt(n) == <<"int", n>>
PyList(n) == <<"list", n>>
PyTuple(n) == <<"tuple", n>>

\* datetime.isoformat() as model_dump(mode="json") writes it, and its parse.
IsoFormat(t) == <<"iso8601", t>>
ParseIso(text) == text[2]

\* model_dump(mode="json") of a payload value: a tuple is written as a JSON
\* array, and an empty map as an empty map.
ToJsonable(v) == IF v = <<>> THEN v ELSE IF v[1] = "tuple" THEN PyList(v[2]) ELSE v

\* packet.model_dump(mode="json") followed by json.dumps.
DumpJson(packet) ==
    [packet_id |-> packet.packet_id,
     device_id |-> packet.device_id,
     created_at |-> IsoFormat(packet.created_at),
     size_bytes |-> packet.size_bytes,
     data |-> ToJsonable(packet.data)]

\* json.loads of a stored payload, and the Packet that model_validate makes of
\* it when it accepts it.
LoadJson(payload_json) ==
    [CachedFields(payload_json.packet_id, payload_json.device_id,
                  ParseIso(payload_json.created_at), payload_json.data)
        EXCEPT !.size_bytes = payload_json.size_bytes]

\* Packet.model_validate(data): the constraints of the fields, as for
\* Packet(**data).
model_validate(data) ==
    IF \/ Len(data.packet_id) < 8 \/ Len(data.packet_id) > 64
       \/ Len(data.device_id) < 3 \/ Len(data.device_id) > 64
       \/ data.size_bytes < 0 \/ data.size_bytes > 10000000
    THEN Raised("ValidationError")
    ELSE Returned(LoadJson(data))

CachedPacket(internal_id, packet) == [internal_id |-> internal_id, packet |-> packet]

\* INSERT INTO offline_packets ...: the row enqueue writes, under the next
\* AUTOINCREMENT value.
InsertedRow(seq, packet) ==
    [id |-> seq + 1,
     packet_id |-> packet.packet_id,
     device_id |-> packet.device_id,
     created_at |-> DumpJson(packet).created_at,
     payload_json |-> DumpJson(packet)]

\* SELECT id, payload_json FROM offline_packets ORDER BY id ASC
RECURSIVE OrderByIdAsc(_)
OrderByIdAsc(rows) ==
    IF rows = {} THEN <<>>
    ELSE LET first == CHOOSE r \in rows : \A o \in rows : r.id <= o.id
         IN  <<first>> \o OrderByIdAsc(rows \ {first})

\* A limit that keeps the newest rows.
MutSqlLimitNewest(sorted, limit) ==
    IF limit < 0 \/ limit >= Len(sorted) THEN sorted
    ELSE SubSeq(sorted, Len(sorted) - limit + 1, Len(sorted))

\* ... LIMIT ?: SQLite puts no upper bound on the rows when the limit is negative.
SqlLimit(sorted, limit) ==
    IF limit < 0 \/ limit >= Len(sorted) THEN sorted ELSE SubSeq(sorted, 1, limit)

\* The fetched rows whose payload model_validate turns down.
Rejected(fetched) ==
    {i \in 1..Len(fetched) : model_validate(fetched[i].payload_json)[1] = "raise"}

\* The loop over the fetched rows has no handler: the first ValidationError
\* leaves dequeue_batch, and no entry of the batch is returned.
dequeue_batch(rows, limit) ==
    LET fetched == SqlLimit(OrderByIdAsc(rows), limit)
    IN  IF Rejected(fetched) /= {} THEN Raised("ValidationError")
        ELSE [i \in 1..Len(fetched) |->
                CachedPacket(fetched[i].id, model_validate(fetched[i].payload_json)[2])]

\* A deletion by position: as many of the oldest rows go as ids were given.
MutDeleteManyOldest(rows, internal_ids) ==
    {r \in rows : Cardinality({o \in rows : o.id < r.id}) >= Cardinality(internal_ids)}

\* DELETE FROM offline_packets WHERE id IN (...); nothing is executed for no ids.
delete_many(rows, internal_ids) ==
    IF internal_ids = {} THEN rows ELSE {r \in rows : r.id \notin internal_ids}

count(rows) == Cardinality(rows)

\* A start-up that builds the table anew.
MutInitDbRecreate(rows) == {}

\* CREATE TABLE IF NOT EXISTS offline_packets (...) on a path whose table
\* exists: the statement does nothing.
_init_db(rows) == rows

-----------------------------------------------------------------------------
(* Inputs of the queue operations                                          *)

\* Most packets enqueued in one run.
MaxEnqueued == 3

QueuePackets ==
    {CachedFields(pid, "dev-000001", 1, d) :
        pid \in {"pkt-000001", "pkt-000002"}, d \in {PyInt(90), PyTuple(90)}}

Limits == (0 - 1)..(MaxEnqueued + 1)

IdSets == SUBSET (1..(MaxEnqueued + 1))

-----------------------------------------------------------------------------
(* Actions of the offline queue                                            *)

RouterUnchanged ==
    /\ UNCHANGED policies
    /\ displaced' = 0

\* The oldest row of the table.
OldestRow(rows) == CHOOSE r \in rows : \A o \in rows : r.id <= o.id

MutEnqueueEvict(packet) ==
    /\ sqlite_sequence < MaxEnqueued
    /\ offline_packets' =
          (IF Cardinality(offline_packets) >= 2
           THEN offline_packets \ {OldestRow(offline_packets)} ELSE offline_packets)
          \cup {InsertedRow(sqlite_sequence, packet)}
    /\ sqlite_sequence' = sqlite_sequence + 1
    /\ enqueued' = Append(enqueued, packet)
    /\ Returns("enqueue", Some(packet), None)
    /\ UNCHANGED expunged
    /\ RouterUnchanged

\* What enqueue does to the table.
Inserts(packet) ==
    /\ sqlite_sequence < MaxEnqueued
    /\ offline_packets' = offline_packets \cup {InsertedRow(sqlite_sequence, packet)}
    /\ sqlite_sequence' = sqlite_sequence + 1
    /\ enqueued' = Append(enqueued, packet)
    /\ UNCHANGED expunged
    /\ RouterUnchanged

Enqueue(packet) ==
    /\ Inserts(packet)
    /\ Returns("enqueue", Some(packet), None)

\* The steps of enqueue that reach the database file, each of which can fail.
StorageSteps == {"connect", "execute", "commit"}

\* The rows an enqueue has written in its transaction when the given step
\* fails: the INSERT has run before the commit, and not before the other two.
Pending(step, seq, packet) ==
    IF step = "commit" THEN {InsertedRow(seq, packet)} ELSE {}

\* A connection that keeps what its transaction had written.
MutRollbackKeepsPending(rows, pending) == rows \cup pending

\* "with sqlite3.connect(...) as conn": an exception inside the block rolls the
\* transaction back, the rows it had written are gone and so is its use of
\* the AUTOINCREMENT mark.
Rollback(rows, pending) == rows

\* enqueue when the database fails at one of its steps: the sqlite3 exception
\* leaves the function, which has no handler.
EnqueueFails(packet, step) ==
    /\ offline_packets' = Rollback(offline_packets, Pending(step, sqlite_sequence, packet))
    /\ Returns("enqueue", Some(packet), Some(Raised("sqlite3.OperationalError")))
    /\ UNCHANGED <<sqlite_sequence, enqueued, expunged>>
    /\ RouterUnchanged

MutDequeueBatchPop(limit) ==
    /\ Returns("dequeue_batch", Some(limit), Some(dequeue_batch(offline_packets, limit)))
    /\ offline_packets' =
          {r \in offline_packets :
              \A i \in 1..Len(dequeue_batch(offline_packets, limit)) :
                  dequeue_batch(offline_packets, limit)[i].internal_id /= r.id}
    /\ UNCHANGED <<sqlite_sequence, enqueued, expunged>>
    /\ RouterUnchanged

DequeueBatch(limit) ==
    /\ Returns("dequeue_batch", Some(limit), Some(dequeue_batch(offline_packets, limit)))
    /\ UNCHANGED <<offline_packets, sqlite_sequence, enqueued, expunged>>
    /\ RouterUnchanged

DeleteMany(internal_ids) ==
    /\ offline_packets' = delete_many(offline_packets, internal_ids)
    /\ expunged' = expunged \cup (internal_ids \cap (1..sqlite_sequence))
    /\ Returns("delete_many", Some(internal_ids), None)
    /\ UNCHANGED <<sqlite_sequence, enqueued>>
    /\ RouterUnchanged

Count ==
    /\ Returns("count", None, Some(count(offline_packets)))
    /\ UNCHANGED <<offline_packets, sqlite_sequence, enqueued, expunged>>
    /\ RouterUnchanged

\* A clear() that drops the table's entry in sqlite_sequence with its rows.
MutClearResetsSequence ==
    /\ offline_packets' = {}
    /\ sqlite_sequence' = 0
    /\ expunged' = expunged \cup (1..sqlite_sequence)
    /\ Returns("clear", None, None)
    /\ UNCHANGED enqueued
    /\ RouterUnchanged

\* DELETE FROM offline_packets: every row goes, the AUTOINCREMENT mark stays.
Clear ==
    /\ offline_packets' = {}
    /\ expunged' = expunged \cup (1..sqlite_sequence)
    /\ Returns("clear", None, None)
    /\ UNCHANGED <<sqlite_sequence, enqueued>>
    /\ RouterUnchanged

\* OfflineCache(db_path) on the path of the running queue: a process restart.
Reopen ==
    /\ offline_packets' = _init_db(offline_packets)
    /\ Returns("__init__", None, None)
    /\ UNCHANGED <<sqlite_sequence, enqueued, expunged>>
    /\ RouterUnchanged

\* OfflineCache(db_path) on a fresh path: _init_db creates the empty table.
InitQueue ==
    /\ AtRest
    /\ QueueInit
    /\ policies = <<>>
    /\ ret = Call("init", None, None)
    /\ repeated = FALSE
    /\ displaced = 0

NextQueue ==
    \/ \E packet \in QueuePackets : Enqueue(packet)
    \/ \E packet \in QueuePackets, step \in StorageSteps : EnqueueFails(packet, step)
    \/ \E limit \in Limits : DequeueBatch(limit)
    \/ \E internal_ids \in IdSets : DeleteMany(internal_ids)
    \/ Count
    \/ Clear
    \/ Reopen

SpecQueue == InitQueue /\ [][NextQueue]_vars

-----------------------------------------------------------------------------
(* Redelivery: a worker drains the offline queue while packets are enqueued *)

RedeliveryLimits == {1, 2}

RedeliveryPackets == {p \in QueuePackets : p.data = PyInt(90)}

BatchIds(batch) == {batch[i].internal_id : i \in 1..Len(batch)}

WorkerOnly ==
    /\ UNCHANGED <<writers, db_lock, threads, keys_by_device>>
    /\ UNCHANGED <<counters, ml_scorer, constructed, mutators>>
    /\ RouterUnchanged

\* The worker reads a batch; the attempts of the round before stay on record
\* until this read has been made.
Fetches(limit) ==
    /\ worker.pc = "idle"
    /\ worker' = [worker EXCEPT !.pc = "forwarding", !.limit = limit,
                                !.batch = dequeue_batch(offline_packets, limit),
                                !.next = 1, !.ok_ids = {}, !.failed = {}]
    /\ UNCHANGED <<offline_packets, sqlite_sequence, enqueued, expunged>>
    /\ WorkerOnly

RedeliverFetch(limit) ==
    /\ Fetches(limit)
    /\ Result("dequeue_batch", Some(limit), Some(dequeue_batch(offline_packets, limit)))

\* The worker tries to forward the next entry of its batch; the attempt
\* succeeds or fails.
Attempts(delivered) ==
    /\ worker.pc = "forwarding"
    /\ worker.next <= Len(worker.batch)
    /\ LET id == worker.batch[worker.next].internal_id
       IN  worker' =
                [worker EXCEPT
                    !.next = @ + 1,
                    !.ok_ids = IF delivered THEN @ \cup {id} ELSE @,
                    !.failed = IF delivered THEN @ ELSE @ \cup {id},
                    !.forwarded = IF delivered THEN @ \cup {id} ELSE @,
                    !.forwarded_again =
                        IF delivered /\ id \in worker.forwarded THEN @ \cup {id} ELSE @]
    /\ UNCHANGED <<offline_packets, sqlite_sequence, enqueued, expunged>>
    /\ WorkerOnly

RedeliverAttempt(delivered) ==
    /\ Attempts(delivered)
    /\ Result("forward", Some(worker.batch[worker.next].internal_id), Some(delivered))

\* Every entry of the batch was tried: the worker deletes the ids it forwarded.
Acks ==
    /\ worker.pc = "forwarding"
    /\ worker.next > Len(worker.batch)
    /\ offline_packets' = delete_many(offline_packets, worker.ok_ids)
    /\ expunged' = expunged \cup worker.ok_ids
    /\ worker' = [worker EXCEPT !.pc = "idle", !.batch = <<>>, !.next = 1, !.ok_ids = {}]
    /\ UNCHANGED <<sqlite_sequence, enqueued>>
    /\ WorkerOnly

RedeliverAck ==
    /\ Acks
    /\ Result("delete_many", Some(worker.ok_ids), None)

\* The worker's process stops in the middle of a round and starts again on the
\* same database: what it forwarded is delivered, and nothing was deleted.
RedeliverRestart ==
    /\ worker.pc = "forwarding"
    /\ offline_packets' = _init_db(offline_packets)
    /\ worker' = [worker EXCEPT !.pc = "idle", !.batch = <<>>, !.next = 1, !.ok_ids = {}]
    /\ Result("__init__", None, None)
    /\ UNCHANGED <<sqlite_sequence, enqueued, expunged>>
    /\ WorkerOnly

InitRedelivery ==
    /\ AtRest
    /\ QueueInit
    /\ policies = <<>>
    /\ ret = Call("init", None, None)
    /\ repeated = FALSE
    /\ displaced = 0

NextRedelivery ==
    \/ \E packet \in RedeliveryPackets : Enqueue(packet)
    \/ \E limit \in RedeliveryLimits : RedeliverFetch(limit)
    \/ \E delivered \in BOOLEAN : RedeliverAttempt(delivered)
    \/ RedeliverAck
    \/ RedeliverRestart

SpecRedelivery == InitRedelivery /\ [][NextRedelivery]_vars

\* The steps of the loop that runs forever.  Of each call ret keeps the name
\* only: what the call took and what it returned is in the worker's record
\* and in the table.
LoopEnqueue(packet) ==
    /\ Inserts(packet)
    /\ Returns("enqueue", None, None)

\* The limit is fixed by the first read.
LoopFetch(limit) ==
    /\ worker.limit \in {0, limit}
    /\ Fetches(limit)
    /\ Result("dequeue_batch", None, None)

LoopAttempt(delivered) ==
    /\ Attempts(delivered)
    /\ Result("forward", None, None)

LoopAck ==
    /\ Acks
    /\ Result("delete_many", None, None)

\* The attempt to forward the entry with this sequence number succeeds.
ForwardSucceeds(id) ==
    /\ LoopAttempt(TRUE)
    /\ worker.batch[worker.next].internal_id = id

\* The worker goes on from every point of a round, and no entry's attempts
\* fail for ever.
FairRedelivery ==
    /\ WF_vars(\E limit \in RedeliveryLimits : LoopFetch(limit))
    /\ WF_vars(\E delivered \in BOOLEAN : LoopAttempt(delivered))
    /\ WF_vars(LoopAck)
    /\ \A id \in 1..MaxEnqueued : SF_vars(ForwardSucceeds(id))

NextRedeliveryLoop ==
    \/ \E packet \in RedeliveryPackets : LoopEnqueue(packet)
    \/ \E limit \in RedeliveryLimits : LoopFetch(limit)
    \/ \E delivered \in BOOLEAN : LoopAttempt(delivered)
    \/ LoopAck

SpecRedeliveryLoop == InitRedelivery /\ [][NextRedeliveryLoop]_vars /\ FairRedelivery

-----------------------------------------------------------------------------
(* Concurrent enqueue: each caller runs enqueue on a connection of its own  *)

WritersOnly ==
    /\ UNCHANGED <<worker, threads, keys_by_device>>
    /\ UNCHANGED <<counters, ml_scorer, constructed, mutators>>
    /\ RouterUnchanged

\* The caller has dumped the packet to JSON and opened its connection.
EnqueueConnect(c, packet) ==
    /\ writers[c].pc = "ready"
    /\ sqlite_sequence + Cardinality({o \in Callers : writers[o].pc /= "ready"}) < MaxEnqueued
    /\ writers' = [writers EXCEPT ![c] = [pc |-> "connected", packet |-> Some(packet),
                                          row |-> None]]
    /\ Result("connect", Some(c), None)
    /\ UNCHANGED <<offline_packets, sqlite_sequence, enqueued, expunged, db_lock>>
    /\ WritersOnly

\* An INSERT that takes the next id without holding the write lock.
MutEnqueueInsertUnlocked(c) ==
    /\ writers[c].pc = "connected"
    /\ writers' = [writers EXCEPT
                      ![c].pc = "inserted",
                      ![c].row = Some(InsertedRow(sqlite_sequence, writers[c].packet[1]))]
    /\ db_lock' = Some(c)
    /\ Result("execute", Some(c), None)
    /\ UNCHANGED <<offline_packets, sqlite_sequence, enqueued, expunged>>
    /\ WritersOnly

\* cur.execute(INSERT ...): SQLite makes the connection wait until no other
\* connection holds the write lock, then takes the lock and gives the row the
\* id after the table's AUTOINCREMENT mark.
EnqueueInsert(c) ==
    /\ writers[c].pc = "connected"
    /\ db_lock = None
    /\ writers' = [writers EXCEPT
                      ![c].pc = "inserted",
                      ![c].row = Some(InsertedRow(sqlite_sequence, writers[c].packet[1]))]
    /\ db_lock' = Some(c)
    /\ Result("execute", Some(c), None)
    /\ UNCHANGED <<offline_packets, sqlite_sequence, enqueued, expunged>>
    /\ WritersOnly

\* conn.commit(): the row and the new mark become the table's, the lock is
\* released, and enqueue returns.
EnqueueCommit(c) ==
    /\ writers[c].pc = "inserted"
    /\ offline_packets' = offline_packets \cup {writers[c].row[1]}
    /\ sqlite_sequence' = writers[c].row[1].id
    /\ enqueued' = Append(enqueued, writers[c].packet[1])
    /\ db_lock' = None
    /\ writers' = [writers EXCEPT ![c] = [pc |-> "ready", packet |-> None, row |-> None]]
    /\ Result("enqueue", Some(writers[c].packet[1]), None)
    /\ UNCHANGED expunged
    /\ WritersOnly

\* A reader on a connection of its own sees the committed rows.
ConcurrentDequeueBatch(limit) ==
    /\ Result("dequeue_batch", Some(limit), Some(dequeue_batch(offline_packets, limit)))
    /\ UNCHANGED <<offline_packets, sqlite_sequence, enqueued, expunged, writers, db_lock>>
    /\ WritersOnly

InitConcurrentEnqueue ==
    /\ AtRest
    /\ QueueInit
    /\ policies = <<>>
    /\ ret = Call("init", None, None)
    /\ repeated = FALSE
    /\ displaced = 0

NextConcurrentEnqueue ==
    \/ \E c \in Callers, packet \in QueuePackets : EnqueueConnect(c, packet)
    \/ \E c \in Callers : EnqueueInsert(c)
    \/ \E c \in Callers : EnqueueCommit(c)
    \/ \E limit \in Limits : ConcurrentDequeueBatch(limit)

SpecConcurrentEnqueue == InitConcurrentEnqueue /\ [][NextConcurrentEnqueue]_vars

-----------------------------------------------------------------------------
(* Concurrent registry: one thread in upsert while another matches          *)

\* Most upserts begun while one match_for_packet is running.
MaxOverlaps == 2

\* Two versions of policy-1 that accept every packet, and two of policy-2.
ConcurrentPolicies ==
    {Policy("policy-1", None, None, None, endpoint, TRUE, FALSE) :
        endpoint \in Optional(Endpoints)}
    \cup
    {Policy("policy-2", k[1], k[2], k[3], None, TRUE, FALSE) :
        k \in {<<None, None, None>>, <<Some("ground"), Some("medical"), Some("high")>>}}

ConcurrentPackets ==
    {RoutedPacket("ground", "medical", "telemetry", "critical"),
     RoutedPacket("water", "medical", "telemetry", "critical")}

\* The stored policy of this id, if there is one.
StoredUnder(ps, policy_id) ==
    IF PositionOf(ps, policy_id) = 0 THEN None ELSE Some(ps[PositionOf(ps, policy_id)])

ThreadsOnly ==
    /\ UNCHANGED <<worker, writers, db_lock, keys_by_device>>
    /\ UNCHANGED <<counters, ml_scorer, constructed, mutators>>
    /\ QueueUnchanged

\* upsert, first statement: self.remove(policy.policy_id) binds _policies to a
\* new list without the policy.  An iteration in progress keeps the list object
\* it started on, which nothing changes any more.  For a match in progress the
\* registry of after this upsert becomes one of the registries it may answer for.
UpsertRemove(policy) ==
    /\ threads["mutator"].pc = "idle"
    /\ threads["matcher"].pc = "iterating" =>
          Cardinality(threads["matcher"].overlaps) < MaxOverlaps
    /\ policies' = remove(policies, policy.policy_id)
    /\ threads' =
          [threads EXCEPT
              !["mutator"] = [pc |-> "removed", policy |-> policy, before |-> policies],
              !["matcher"] =
                  IF threads["matcher"].pc /= "iterating" THEN @
                  ELSE [@ EXCEPT
                          !.list = IF threads["matcher"].live THEN policies ELSE @,
                          !.live = FALSE,
                          !.views = @ \cup {upsert(policies, policy)},
                          !.overlaps = @ \cup {[old |-> StoredUnder(policies, policy.policy_id),
                                                new |-> policy]}]]
    /\ UNCHANGED <<ret, repeated>>
    /\ ThreadsOnly

\* upsert, second statement: self._policies.append(policy) extends the list
\* object _policies is bound to, under every iteration running on that object.
UpsertAppend ==
    /\ threads["mutator"].pc = "removed"
    /\ policies' = Append(policies, threads["mutator"].policy)
    /\ threads' = [threads EXCEPT !["mutator"] = [pc |-> "idle"]]
    /\ Result("upsert", Some(threads["mutator"].policy), None)
    /\ ThreadsOnly

\* match_for_packet: the for statement takes an iterator on the list object
\* _policies is bound to now.
MatchBegin(packet) ==
    /\ threads["matcher"].pc = "idle"
    /\ threads' =
          [threads EXCEPT !["matcher"] =
              [pc |-> "iterating", packet |-> packet, live |-> TRUE, list |-> <<>>, idx |-> 0,
               views |-> IF threads["mutator"].pc = "removed"
                         THEN {threads["mutator"].before,
                               upsert(threads["mutator"].before, threads["mutator"].policy)}
                         ELSE {policies},
               overlaps |-> IF threads["mutator"].pc = "removed"
                            THEN {[old |-> StoredUnder(threads["mutator"].before,
                                                       threads["mutator"].policy.policy_id),
                                   new |-> threads["mutator"].policy]}
                            ELSE {}]]
    /\ UNCHANGED <<policies, ret, repeated>>
    /\ ThreadsOnly

\* The list object the iteration runs on, as it is now.
IteratedList ==
    IF threads["matcher"].live THEN policies ELSE threads["matcher"].list

\* match_for_packet: one turn of the loop.  The iterator is exhausted (return
\* None), or the next policy passes the three predicates (return it), or not.
MatchStep ==
    /\ threads["matcher"].pc = "iterating"
    /\ LET m == threads["matcher"]
           at == m.idx + 1
       IN  IF at > Len(IteratedList)
           THEN /\ threads' = [threads EXCEPT !["matcher"] = [pc |-> "idle"]]
                /\ Result("match_for_packet", Some(m.packet), Some(None))
           ELSE IF PassesPredicates(IteratedList[at], m.packet)
           THEN /\ threads' = [threads EXCEPT !["matcher"] = [pc |-> "idle"]]
                /\ Result("match_for_packet", Some(m.packet), Some(Some(IteratedList[at])))
           ELSE /\ threads' = [threads EXCEPT !["matcher"].idx = at]
                /\ UNCHANGED <<ret, repeated>>
    /\ UNCHANGED policies
    /\ ThreadsOnly

InitConcurrentRegistry ==
    /\ AtRest
    /\ QueueInit
    /\ policies = <<>>
    /\ ret = Call("init", None, None)
    /\ repeated = FALSE
    /\ displaced = 0

NextConcurrentRegistry ==
    \/ \E policy \in ConcurrentPolicies : UpsertRemove(policy)
    \/ UpsertAppend
    \/ \E packet \in ConcurrentPackets : MatchBegin(packet)
    \/ MatchStep

SpecConcurrentRegistry == InitConcurrentRegistry /\ [][NextConcurrentRegistry]_vars

-----------------------------------------------------------------------------
(* Device keys, packet signatures and the entry gate:                       *)
(* src/src/eeia/security/packet_security.py                                 *)

\* The secret of a key, by Python type.
PyBytes(s) == <<"bytes", s>>
PyStr(s) == <<"str", s>>

DeviceKey(device_id, key_id, secret, algorithm, active) ==
    [device_id |-> device_id, key_id |-> key_id, secret |-> secret,
     algorithm |-> algorithm, active |-> active]

\* DeviceKeyStore: _keys_by_device[d] is the key stored under device_id d, None
\* when the dict has no such entry.
register(keys, key) == [keys EXCEPT ![key.device_id] = Some(key)]

revoke(keys, device_id) ==
    IF keys[device_id] /= None
    THEN [keys EXCEPT ![device_id] = Some([@[1] EXCEPT !.active = FALSE])]
    ELSE keys

\* A lookup that does not read the active flag.
MutGetActiveKeyIgnoresFlag(keys, device_id) == keys[device_id]

get_active_key(keys, device_id) ==
    IF keys[device_id] = None \/ ~keys[device_id][1].active THEN None ELSE keys[device_id]

\* The fields of a Packet that the signature covers.  A dict is the sequence of
\* its (key, value) items in insertion order.
SignedFields(packet_id, device_id, data) ==
    [packet_id |-> packet_id, device_id |-> device_id, created_at |-> 1,
     env |-> "ground", domain |-> "medical", packet_type |-> "telemetry",
     priority |-> "normal", size_bytes |-> 128, data |-> data, metadata |-> <<>>]

\* dict == dict: the same keys with the same values, in whatever order.
Items(dict) == {dict[i] : i \in 1..Len(dict)}

\* Packet.__eq__ (pydantic): equal field by field.
PacketEq(p, q) ==
    /\ [p EXCEPT !.data = <<>>, !.metadata = <<>>] = [q EXCEPT !.data = <<>>, !.metadata = <<>>]
    /\ Items(p.data) = Items(q.data)
    /\ Items(p.metadata) = Items(q.metadata)

\* datetime.isoformat()
isoformat(t) == "T" \o ToString(t)

\* repr(dict): the items in insertion order.  A text is a string; \o joins
\* two texts.
RECURSIVE ReprItems(_)
ReprItems(dict) ==
    IF dict = <<>> THEN ""
    ELSE dict[1][1] \o ": " \o dict[1][2]
         \o (IF Len(dict) > 1 THEN ", " ELSE "")
         \o ReprItems(Tail(dict))

repr(dict) == "{" \o ReprItems(dict) \o "}"

\* "|".join(parts)
RECURSIVE Join(_)
Join(parts) ==
    IF Len(parts) = 1 THEN parts[1] ELSE parts[1] \o "|" \o Join(Tail(parts))

\* text.encode("utf-8")
EncodeUtf8(text) == [utf8 |-> text]

_serialize_packet_for_signing(packet) ==
    EncodeUtf8(Join(<<packet.packet_id, packet.device_id, isoformat(packet.created_at),
                      packet.env, packet.domain, packet.packet_type,
                      packet.priority, ToString(packet.size_bytes),
                      repr(packet.data), repr(packet.metadata)>>))

\* hmac.new(secret, msg, hashlib.sha256).hexdigest(): different (secret, msg)
\* give different digests.
HexDigest(secret, msg) == [text |-> "hexdigest", of |-> <<secret, msg>>]

\* A digest with one character changed, sixty-four zeros, and a text with a
\* character outside ASCII.
Tampered(digest) == [text |-> "tampered", of |-> digest.of]
Zeros == [text |-> "zeros", of |-> <<>>]
NonAscii == [text |-> "non-ascii", of |-> <<>>]

\* hmac.new raises TypeError for a key that is not bytes.
sign_packet_hmac(packet, key) ==
    IF key.algorithm /= "HS256" THEN Raised("ValueError")
    ELSE IF key.secret[1] /= "bytes" THEN Raised("TypeError")
    ELSE Returned(HexDigest(key.secret, _serialize_packet_for_signing(packet)))

\* hmac.compare_digest(a, b) of two str: TypeError unless both are ASCII.
compare_digest(a, b) ==
    IF a.text = "non-ascii" \/ b.text = "non-ascii" THEN Raised("TypeError")
    ELSE Returned(a = b)

verify_packet_hmac(packet, signature, key) ==
    IF key.algorithm /= "HS256" THEN Raised("ValueError")
    ELSE LET expected == sign_packet_hmac(packet, key)
         IN  IF expected[1] = "raise" THEN expected
             ELSE compare_digest(expected[2], signature)

\* RiskScoringEngine, scores in hundredths.  A scorer is the sequence of the
\* values its successive calls return.
threshold_block == 90
threshold_audit == 70

score(scorer, call) == IF scorer = None THEN None ELSE Some(scorer[1][call])

\* A block threshold that the score must exceed.
MutShouldBlockAbove(scorer, call) ==
    score(scorer, call) /= None /\ score(scorer, call)[1] > threshold_block

should_block(scorer, call) ==
    score(scorer, call) /= None /\ score(scorer, call)[1] >= threshold_block

should_strict_audit(scorer, call) ==
    score(scorer, call) /= None /\ score(scorer, call)[1] >= threshold_audit

EntryValidationResult(ok, reason, risk_score, strict_audit, blocked) ==
    [ok |-> ok, reason |-> reason, risk_score |-> risk_score,
     strict_audit |-> strict_audit, blocked |-> blocked]

\* A gate that turns away a packet that carries no signature.
MutValidateRequiresSignature(packet, signature, keys, scorer) ==
    LET key == get_active_key(keys, packet.device_id)
        verified == verify_packet_hmac(packet, signature[1], key[1])
        risk_score == score(scorer, 1)
        blocked == IF risk_score /= None THEN should_block(scorer, 2) ELSE FALSE
        strict_audit == IF risk_score /= None THEN should_strict_audit(scorer, 3) ELSE FALSE
    IN  IF key = None
        THEN Returned(EntryValidationResult(FALSE, Some("unknown_or_inactive_device"),
                                            None, FALSE, TRUE))
        ELSE IF signature = None
        THEN Returned(EntryValidationResult(FALSE, Some("invalid_signature"),
                                            None, FALSE, TRUE))
        ELSE IF verified[1] = "raise" THEN verified
        ELSE IF ~verified[2]
        THEN Returned(EntryValidationResult(FALSE, Some("invalid_signature"),
                                            None, FALSE, TRUE))
        ELSE IF blocked
        THEN Returned(EntryValidationResult(FALSE, Some("ml_risk_block"),
                                            risk_score, strict_audit, TRUE))
        ELSE Returned(EntryValidationResult(TRUE, None, risk_score, strict_audit, FALSE))

validate_packet_entry(packet, signature, keys, scorer) ==
    LET key == get_active_key(keys, packet.device_id)
        verified == verify_packet_hmac(packet, signature[1], key[1])
        risk_score == score(scorer, 1)
        blocked == IF risk_score /= None THEN should_block(scorer, 2) ELSE FALSE
        strict_audit == IF risk_score /= None THEN should_strict_audit(scorer, 3) ELSE FALSE
    IN  IF key = None
        THEN Returned(EntryValidationResult(FALSE, Some("unknown_or_inactive_device"),
                                            None, FALSE, TRUE))
        ELSE IF signature /= None /\ verified[1] = "raise" THEN verified
        ELSE IF signature /= None /\ ~verified[2]
        THEN Returned(EntryValidationResult(FALSE, Some("invalid_signature"),
                                            None, FALSE, TRUE))
        ELSE IF blocked
        THEN Returned(EntryValidationResult(FALSE, Some("ml_risk_block"),
                                            risk_score, strict_audit, TRUE))
        ELSE Returned(EntryValidationResult(TRUE, None, risk_score, strict_audit, FALSE))

-----------------------------------------------------------------------------
(* Inputs and actions of the key store, the signatures and the gate         *)

Secrets == {PyBytes("secret-1"), PyBytes("secret-2"), PyStr("secret-1")}

\* The keys handed to register: as the DeviceKey constructor makes them, or a
\* key object that an earlier revoke has made inactive.
RegisteredKeys ==
    {DeviceKey(d, k, s, "HS256", a) :
        d \in Devices, k \in {"key-1", "key-2"}, s \in Secrets, a \in BOOLEAN}

\* The keys the device of a packet signs with.
SigningKeys(packet) ==
    {key \in RegisteredKeys :
        key.key_id = "key-1" /\ key.device_id = packet.device_id /\ key.active}

\* Two packets that are equal but whose data was filled in a different order,
\* and a packet of another device.
SignedPackets ==
    {SignedFields("pkt-000001", "dev-000001",
                  <<<<"'temperature'", "36">>, <<"'pulse'", "70">>>>),
     SignedFields("pkt-000001", "dev-000001",
                  <<<<"'pulse'", "70">>, <<"'temperature'", "36">>>>),
     SignedFields("pkt-000002", "dev-000002", <<<<"'temperature'", "36">>>>)}

\* The signatures presented for a packet: the digests under the byte secrets,
\* one of them with a character changed, and two texts that are no digest.
SignaturesFor(packet) ==
    {sign_packet_hmac(packet, key)[2] :
        key \in {k \in SigningKeys(packet) : k.secret[1] = "bytes"}}
    \cup {Tampered(HexDigest(PyBytes("secret-1"), _serialize_packet_for_signing(packet))),
          Zeros, NonAscii}

RiskScorers == {None, Some(<<95, 95, 95>>)}

SecurityOnly ==
    /\ UNCHANGED <<worker, writers, db_lock, threads>>
    /\ UNCHANGED <<counters, ml_scorer, constructed, mutators>>
    /\ UNCHANGED <<offline_packets, sqlite_sequence, enqueued, expunged>>
    /\ RouterUnchanged

Register(key) ==
    /\ keys_by_device' = register(keys_by_device, key)
    /\ Result("register", Some(key), None)
    /\ SecurityOnly

Revoke(device_id) ==
    /\ keys_by_device' = revoke(keys_by_device, device_id)
    /\ Result("revoke", Some(device_id), None)
    /\ SecurityOnly

GetActiveKey(device_id) ==
    /\ Result("get_active_key", Some(device_id), Some(get_active_key(keys_by_device, device_id)))
    /\ UNCHANGED keys_by_device
    /\ SecurityOnly

SignPacketHmac(packet, key) ==
    /\ Result("sign_packet_hmac", Some(<<packet, key>>), Some(sign_packet_hmac(packet, key)))
    /\ UNCHANGED keys_by_device
    /\ SecurityOnly

VerifyPacketHmac(packet, signature, key) ==
    /\ Result("verify_packet_hmac", Some(<<packet, signature, key>>),
              Some(verify_packet_hmac(packet, signature, key)))
    /\ UNCHANGED keys_by_device
    /\ SecurityOnly

ValidatePacketEntry(packet, signature, scorer) ==
    /\ Result("validate_packet_entry", Some(<<packet, signature, scorer>>),
              Some(validate_packet_entry(packet, signature, keys_by_device, scorer)))
    /\ UNCHANGED keys_by_device
    /\ SecurityOnly

\* DeviceKeyStore(): no key is registered.
InitSecurity ==
    /\ AtRest
    /\ QueueInit
    /\ policies = <<>>
    /\ ret = Call("init", None, None)
    /\ repeated = FALSE
    /\ displaced = 0

NextSecurity ==
    \/ \E key \in RegisteredKeys : Register(key)
    \/ \E device_id \in Devices : Revoke(device_id)
    \/ \E device_id \in Devices : GetActiveKey(device_id)
    \/ \E packet \in SignedPackets : \E key \in SigningKeys(packet) :
          SignPacketHmac(packet, key)
    \/ \E packet \in SignedPackets : \E key \in SigningKeys(packet) :
          \E signature \in SignaturesFor(packet) : VerifyPacketHmac(packet, signature, key)
    \/ \E packet \in SignedPackets, scorer \in RiskScorers :
          \E signature \in Optional(SignaturesFor(packet)) :
              ValidatePacketEntry(packet, signature, scorer)

SpecSecurity == InitSecurity /\ [][NextSecurity]_vars

-----------------------------------------------------------------------------
(* The entry gate with scorers on a grid of scores around the thresholds    *)

\* Scores in hundredths on both sides of the two thresholds.
ScoreGrid == {threshold_audit - 1, threshold_audit, threshold_block - 1, threshold_block}

\* No scorer, or a scorer that answers its three calls with scores of the grid:
\* the same score each time, or on the second call a score next to the block
\* threshold and on the third a score next to the audit threshold.
GateScorers ==
    {None} \cup
    UNION {{Some(<<a, b, c>>) :
                b \in {a, threshold_block - 1, threshold_block},
                c \in {a, threshold_audit - 1, threshold_audit}} : a \in ScoreGrid}

GateKeys == {DeviceKey(d, "key-1", PyBytes("secret-1"), "HS256", TRUE) : d \in Devices}

GatePackets ==
    {SignedFields("pkt-000001", "dev-000001", <<<<"'temperature'", "36">>>>),
     SignedFields("pkt-000002", "dev-000002", <<<<"'temperature'", "36">>>>)}

\* The signature of the device's key, the same with a character changed, and a
\* text with a character outside ASCII.
GateSignatures(packet) ==
    {HexDigest(PyBytes("secret-1"), _serialize_packet_for_signing(packet)),
     Tampered(HexDigest(PyBytes("secret-1"), _serialize_packet_for_signing(packet))),
     NonAscii}

InitGate == InitSecurity

NextGate ==
    \/ \E key \in GateKeys : Register(key)
    \/ \E device_id \in Devices : Revoke(device_id)
    \/ \E packet \in GatePackets, scorer \in GateScorers :
          \E signature \in Optional(GateSignatures(packet)) :
              ValidatePacketEntry(packet, signature, scorer)

SpecGate == InitGate /\ [][NextGate]_vars

-----------------------------------------------------------------------------
(* Decision tallies: src/src/eeia/observability/domain_metrics.py           *)

DomainCounters(total, routed, offline, ts_stored, obj_stored) ==
    [total |-> total, routed |-> routed, offline |-> offline,
     ts_stored |-> ts_stored, obj_stored |-> obj_stored]

_key(domain, env) == <<domain, env>>

\* Position of the key in the dict, 0 when the dict has no such key.
KeyPosition(dict, key) ==
    IF \E i \in 1..Len(dict) : dict[i][1] = key
    THEN CHOOSE i \in 1..Len(dict) : dict[i][1] = key
    ELSE 0

\* DomainTrafficMetrics._get: the dict after the lookup, which makes the entry
\* when it is not there.
_get(cs, domain, env) ==
    IF KeyPosition(cs, _key(domain, env)) = 0
    THEN Append(cs, <<_key(domain, env), DomainCounters(0, 0, 0, 0, 0)>>)
    ELSE cs

Incremented(c, decision) ==
    DomainCounters(c.total + 1,
                   c.routed + (IF decision.should_forward THEN 1 ELSE 0),
                   c.offline + (IF decision.should_forward THEN 0 ELSE 1),
                   c.ts_stored + (IF decision.store_in_timeseries THEN 1 ELSE 0),
                   c.obj_stored + (IF decision.store_in_object_storage THEN 1 ELSE 0))

record_decision(cs, decision) ==
    LET got == _get(cs, decision.packet.domain, decision.packet.env)
        at == KeyPosition(got, _key(decision.packet.domain, decision.packet.env))
    IN  [got EXCEPT ![at] = <<got[at][1], Incremented(got[at][2], decision)>>]

\* record_decision_metrics(decision) takes one positional argument: a call with
\* another number of arguments raises TypeError before the body runs.
record_decision_metrics(cs, args) ==
    IF Len(args) = 1
    THEN [outcome |-> Returned(None), counters |-> record_decision(cs, args[1])]
    ELSE [outcome |-> Raised("TypeError"), counters |-> cs]

-----------------------------------------------------------------------------
(* Scoring hook: src/src/eeia/edge_ml/hooks.py                              *)

ScoringResult(s, label, reasons) == [score |-> s, label |-> label, reasons |-> reasons]

\* HeuristicPacketScorer.score starts with "packet.domain is Domain.BODY", and
\* the Domain enum has no member BODY: the attribute lookup raises.
HeuristicPacketScorer == [class |-> "HeuristicPacketScorer"]

\* A PacketScorer handed to create_app that answers every packet alike.
FixedPacketScorer(result) == [class |-> "PacketScorer", result |-> result]

ml_score(scorer, packet) ==
    IF scorer.class = "HeuristicPacketScorer" THEN Raised("AttributeError")
    ELSE Returned(scorer.result)

-----------------------------------------------------------------------------
(* HTTP application: src/src/eeia/api/http.py                               *)

\* The verification the handler calls, verify_packet_hmac(packet=, signature=,
\* device_id=, key_id=, keystore=) with a result that has ok and reason: the
\* key of (device_id, key_id) is looked up, an absent or inactive key fails as
\* unknown_device_or_key, a signature other than the expected one fails as
\* signature_mismatch.
sec_result(packet, signature, device_id, key_id, keystore) ==
    LET key == get_active_key(keystore, device_id)
    IN  IF key = None \/ key[1].key_id /= key_id
        THEN [ok |-> FALSE, reason |-> Some("unknown_device_or_key")]
        ELSE IF sign_packet_hmac(packet, key[1]) /= Returned(signature)
        THEN [ok |-> FALSE, reason |-> Some("signature_mismatch")]
        ELSE [ok |-> TRUE, reason |-> None]

Request(packet, x_eeia_key_id, x_eeia_signature, x_request_id) ==
    [packet |-> packet, x_eeia_key_id |-> x_eeia_key_id,
     x_eeia_signature |-> x_eeia_signature, x_request_id |-> x_request_id]

HTTPException(status_code, detail) == [status_code |-> status_code, detail |-> detail]

JSONResponse(status_code, content) == [status_code |-> status_code, content |-> content]

\* An exception no handler catches: the server answers 500.
InternalServerError == [status_code |-> 500, detail |-> "Internal Server Error"]

\* "if x_eeia_signature or enforce": the signature header or the flag starts
\* the check; the key id header alone does not.  A header is absent or holds a
\* text that is not empty.
\* A check that the flag does not start.
MutChecksSignatureOnly(request, enforce) == request.x_eeia_signature /= None

Checks(request, enforce) == request.x_eeia_signature /= None \/ enforce

\* "if not decision.should_forward": the packet goes to the offline queue.
MutStoresOfflineAlways(decision) == TRUE

StoresOffline(decision) == ~decision.should_forward

\* The response of route_packet; what the handler changes is in RoutePacket.
route_packet(request, enforce, ps, keystore, scorer) ==
    LET packet == request.packet
        trace_id == IF request.x_request_id /= None THEN request.x_request_id[1] ELSE "uuid4"
        sec == sec_result(packet, request.x_eeia_signature[1], packet.device_id,
                          request.x_eeia_key_id[1], keystore)
        decision == route(ps, packet)
        ml_res == ml_score(scorer[1], packet)
        ml_block == IF scorer = None THEN None
                    ELSE Some([score |-> ml_res[2].score, label |-> ml_res[2].label,
                               reasons |-> ml_res[2].reasons])
    IN  IF Checks(request, enforce)
           /\ (request.x_eeia_signature = None \/ request.x_eeia_key_id = None)
        THEN HTTPException(401, "Missing EEIA security headers")
        ELSE IF Checks(request, enforce) /\ ~sec.ok
        THEN HTTPException(401, <<"Invalid packet signature", sec.reason[1]>>)
        ELSE IF scorer /= None /\ ml_res[1] = "raise"
        THEN InternalServerError
        ELSE JSONResponse(200,
                 [trace_id |-> trace_id,
                  packet_id |-> packet.packet_id,
                  device_id |-> packet.device_id,
                  decision |->
                      [policy_id |-> IF decision.policy /= None
                                     THEN Some(decision.policy[1].policy_id) ELSE None,
                       target_endpoint |-> decision.target_endpoint,
                       store_in_timeseries |-> decision.store_in_timeseries,
                       store_in_object_storage |-> decision.store_in_object_storage,
                       should_forward |-> decision.should_forward,
                       ml |-> ml_block]])

HandlerPolicies ==
    {Policy("policy-1", None, Some("medical"), None, Some(e), TRUE, TRUE) : e \in Endpoints}
    \cup {Policy("policy-2", None, None, Some("high"), None, FALSE, FALSE)}

HandlerPackets ==
    {SignedFields("pkt-000001", "dev-000001", <<>>),
     [SignedFields("pkt-000002", "dev-000002", <<>>) EXCEPT
         !.domain = "generic", !.packet_type = "control"]}

\* The signature headers sent with a packet: the digest under the device's
\* secret and the same digest with a character changed.
HandlerSignatures(packet) ==
    {HexDigest(PyBytes("secret-1"), _serialize_packet_for_signing(packet)),
     Tampered(HexDigest(PyBytes("secret-1"), _serialize_packet_for_signing(packet)))}

Requests ==
    UNION {{Request(packet, key_id, signature, request_id) :
               key_id \in Optional({"key-1"}),
               signature \in Optional(HandlerSignatures(packet)),
               request_id \in Optional({"req-1"})} : packet \in HandlerPackets}

PacketScorers ==
    {HeuristicPacketScorer, FixedPacketScorer(ScoringResult(50, "medium", <<"label:medium">>))}

AppOnly ==
    /\ UNCHANGED <<worker, writers, db_lock, threads, constructed, mutators>>
    /\ displaced' = 0

\* create_app(cache_path, packet_scorer) with EEIA_ML_SCORING_ENABLED set or
\* not: a new PolicyStore, an OfflineCache on the same file, and the scorer
\* given or, with the flag, the HeuristicPacketScorer.  The key store and the
\* tallies are objects of their modules and stay.
CreateApp(packet_scorer, ml_scoring_enabled) ==
    /\ policies' = <<>>
    /\ offline_packets' = _init_db(offline_packets)
    /\ ml_scorer' = IF packet_scorer = None /\ ml_scoring_enabled
                    THEN Some(HeuristicPacketScorer) ELSE packet_scorer
    /\ Result("create_app", Some(<<packet_scorer, ml_scoring_enabled>>), None)
    /\ UNCHANGED <<sqlite_sequence, enqueued, expunged, keys_by_device, counters>>
    /\ AppOnly

\* POST /v1/policies
CreatePolicy(policy) ==
    /\ policies' = upsert(policies, policy)
    /\ Result("create_policy", Some(policy), Some(JSONResponse(200, policy)))
    /\ UNCHANGED <<offline_packets, sqlite_sequence, enqueued, expunged>>
    /\ UNCHANGED <<keys_by_device, counters, ml_scorer>>
    /\ AppOnly

\* POST /v1/packets/route with EEIA_SECURITY_ENFORCE true or not.  The call of
\* record_decision_metrics is made with three arguments and its exception is
\* dropped; the scorer runs before the queue is written.
RoutePacket(request, enforce) ==
    LET response == route_packet(request, enforce, policies, keys_by_device, ml_scorer)
        decision == route(policies, request.packet)
        recorded == record_decision_metrics(
                        counters, <<"global_domain_metrics", request.packet, decision>>)
    IN  /\ counters' = IF response.status_code = 401 THEN counters ELSE recorded.counters
        /\ IF response.status_code = 200 /\ StoresOffline(decision)
           THEN /\ offline_packets' =
                      offline_packets \cup {InsertedRow(sqlite_sequence, request.packet)}
                /\ sqlite_sequence' = sqlite_sequence + 1
                /\ enqueued' = Append(enqueued, request.packet)
           ELSE UNCHANGED <<offline_packets, sqlite_sequence, enqueued>>
        /\ Result("route_packet", Some(<<request, enforce>>), Some(response))
        /\ UNCHANGED <<policies, expunged, keys_by_device, ml_scorer>>
        /\ AppOnly

\* The module is imported: app = create_app() without arguments and without
\* the scoring flag.
InitHandler ==
    /\ AtRest
    /\ QueueInit
    /\ policies = <<>>
    /\ ret = Call("init", None, None)
    /\ repeated = FALSE
    /\ displaced = 0

NextHandler ==
    \/ \E packet_scorer \in Optional(PacketScorers), ml_scoring_enabled \in BOOLEAN :
          CreateApp(packet_scorer, ml_scoring_enabled)
    \/ \E policy \in HandlerPolicies : CreatePolicy(policy)
    \/ \E key \in GateKeys : Register(key)
    \/ \E device_id \in Devices : Revoke(device_id)
    \/ \E request \in Requests, enforce \in BOOLEAN : RoutePacket(request, enforce)

SpecHandler == InitHandler /\ [][NextHandler]_vars

-----------------------------------------------------------------------------
(* Construction and assignment of model objects: src/src/eeia/core/models.py *)

\* A text of n characters.
RECURSIVE Text(_)
Text(n) == IF n = 0 THEN "" ELSE Text(n - 1) \o "x"

\* The keyword arguments of Packet(...): the fields given, and the names given
\* that are no field of Packet.
PacketKwargs(packet_id, device_id, size_bytes, extra) ==
    [packet_id |-> packet_id, device_id |-> device_id, size_bytes |-> size_bytes,
     extra |-> extra]

\* Packet(**kwargs): constr(min_length=8, max_length=64) for packet_id,
\* constr(min_length=3, max_length=64) for device_id, conint(ge=0,
\* le=10_000_000) for size_bytes, and extra = "forbid".
Packet(kwargs) ==
    IF \/ kwargs.extra /= {}
       \/ Len(kwargs.packet_id) < 8 \/ Len(kwargs.packet_id) > 64
       \/ Len(kwargs.device_id) < 3 \/ Len(kwargs.device_id) > 64
       \/ kwargs.size_bytes < 0 \/ kwargs.size_bytes > 10000000
    THEN Raised("ValidationError")
    ELSE Returned([SignedFields(kwargs.packet_id, kwargs.device_id, <<>>) EXCEPT
                      !.size_bytes = kwargs.size_bytes])

\* BaseModel.__setattr__ of a model whose Config has neither frozen nor
\* validate_assignment: the field takes the value, which is not validated.
__setattr__(object, field, value) == [object EXCEPT ![field] = value]

\* Most packets enqueued in one run of the caller that holds a Packet object.
MaxStored == 1

\* Arguments at and next to each limit, one field away from a valid packet.
KwargsChoices ==
    {PacketKwargs(Text(n), Text(3), 0, {}) : n \in {7, 8, 64, 65}}
    \cup {PacketKwargs(Text(8), Text(n), 0, {}) : n \in {2, 3, 64, 65}}
    \cup {PacketKwargs(Text(8), Text(3), n, {}) : n \in {0 - 1, 0, 10000000, 10000001}}
    \cup {PacketKwargs(Text(8), Text(3), 0, {"unknown"})}

ObjectPolicies ==
    {Policy("policy-1", None, Some("medical"), None, None, TRUE, FALSE)}

ObjectKey == DeviceKey(Text(3), "key-1", PyBytes("secret-1"), "HS256", TRUE)

ObjectsOnly ==
    /\ UNCHANGED <<worker, writers, db_lock, threads, keys_by_device, counters, ml_scorer>>
    /\ UNCHANGED mutators
    /\ displaced' = 0

ConstructPacket(kwargs) ==
    /\ constructed' = IF Packet(kwargs)[1] = "return"
                      THEN Some(Packet(kwargs)[2]) ELSE constructed
    /\ Result("Packet", Some(kwargs), Some(Packet(kwargs)))
    /\ UNCHANGED <<policies, offline_packets, sqlite_sequence, enqueued, expunged>>
    /\ ObjectsOnly

\* packet.size_bytes = value, on the object the caller holds.
SetPacketField(field, value) ==
    /\ constructed /= None
    /\ constructed' = Some(__setattr__(constructed[1], field, value))
    /\ Result("Packet.__setattr__", Some(<<field, value>>), None)
    /\ UNCHANGED <<policies, offline_packets, sqlite_sequence, enqueued, expunged>>
    /\ ObjectsOnly

\* policy.match_domain = value, on an object the store holds: upsert appends
\* the caller's object itself and all() returns the stored objects.
SetPolicyField(i, field, value) ==
    /\ i \in 1..Len(policies)
    /\ policies' = [policies EXCEPT ![i] = __setattr__(policies[i], field, value)]
    /\ Result("Policy.__setattr__", Some(<<i, field, value>>), None)
    /\ UNCHANGED <<offline_packets, sqlite_sequence, enqueued, expunged, constructed>>
    /\ ObjectsOnly

RouteConstructed ==
    /\ constructed /= None
    /\ Result("route", constructed, Some(route(policies, constructed[1])))
    /\ UNCHANGED <<policies, offline_packets, sqlite_sequence, enqueued, expunged, constructed>>
    /\ ObjectsOnly

SignConstructed ==
    /\ constructed /= None
    /\ Result("sign_packet_hmac", Some(<<constructed[1], ObjectKey>>),
              Some(sign_packet_hmac(constructed[1], ObjectKey)))
    /\ UNCHANGED <<policies, offline_packets, sqlite_sequence, enqueued, expunged, constructed>>
    /\ ObjectsOnly

EnqueueConstructed ==
    /\ constructed /= None
    /\ sqlite_sequence < MaxStored
    /\ Enqueue(constructed[1])

InitObjects ==
    /\ AtRest
    /\ QueueInit
    /\ policies = <<>>
    /\ ret = Call("init", None, None)
    /\ repeated = FALSE
    /\ displaced = 0

NextObjects ==
    \/ \E kwargs \in KwargsChoices : ConstructPacket(kwargs)
    \/ \E value \in {0 - 1, 10000001} : SetPacketField("size_bytes", value)
    \/ \E policy \in ObjectPolicies : Upsert(policy)
    \/ \E i \in {1}, value \in {Some("generic")} : SetPolicyField(i, "match_domain", value)
    \/ RouteConstructed
    \/ SignConstructed
    \/ EnqueueConstructed
    \/ \E limit \in 1..MaxStored : DequeueBatch(limit)

SpecObjects == InitObjects /\ [][NextObjects]_vars

-----------------------------------------------------------------------------
(* Concurrent mutation: two threads call upsert and remove on one registry  *)

Mutation(op, policy_id, policy) == [op |-> op, policy_id |-> policy_id, policy |-> policy]

MutationCalls ==
    {Mutation("upsert", p.policy_id, Some(p)) : p \in ConcurrentPolicies}
    \cup {Mutation("remove", id, None) : id \in {"policy-1", "policy-2"}}

OtherThread(t) == CHOOSE o \in MutatorThreads : o /= t

MutatorsOnly ==
    /\ UNCHANGED <<worker, writers, db_lock, threads, keys_by_device>>
    /\ UNCHANGED <<counters, ml_scorer, constructed>>
    /\ QueueUnchanged

\* A registry is filled by one thread before the two threads make their calls.
SeedUpsert(policy) ==
    /\ \A t \in MutatorThreads : mutators[t].pc = "idle"
    /\ Upsert(policy)

\* remove, right-hand side: the list comprehension reads _policies and builds
\* the list without the policies of the id.  Nothing is assigned yet.  The
\* thread notes the registry the two calls start from and which calls had
\* returned before this one began.
MutationFilter(t, call) ==
    /\ mutators[t].pc = "idle"
    /\ mutators' =
          [mutators EXCEPT
              ![t] = [pc |-> "filtered", call |-> call,
                      filtered |-> remove(policies, call.policy_id),
                      base |-> IF mutators[OtherThread(t)].pc = "idle"
                               THEN policies ELSE mutators[OtherThread(t)].base,
                      after |-> {o \in MutatorThreads : mutators[o].pc = "done"}]]
    /\ UNCHANGED <<policies, ret, repeated>>
    /\ MutatorsOnly

\* remove, assignment: self._policies is bound to the list built before.
AssignedList(t) == mutators[t].filtered

MutationAssign(t) ==
    /\ mutators[t].pc = "filtered"
    /\ policies' = AssignedList(t)
    /\ IF mutators[t].call.op = "remove"
       THEN /\ mutators' = [mutators EXCEPT ![t].pc = "done"]
            /\ Result("remove", Some(mutators[t].call.policy_id), None)
       ELSE /\ mutators' = [mutators EXCEPT ![t].pc = "removed"]
            /\ UNCHANGED <<ret, repeated>>
    /\ MutatorsOnly

\* upsert, second statement: self._policies.append(policy), on the list that
\* _policies is bound to now.
MutationAppend(t) ==
    /\ mutators[t].pc = "removed"
    /\ policies' = Append(policies, mutators[t].call.policy[1])
    /\ mutators' = [mutators EXCEPT ![t].pc = "done"]
    /\ Result("upsert", mutators[t].call.policy, None)
    /\ MutatorsOnly

InitConcurrentMutation ==
    /\ AtRest
    /\ QueueInit
    /\ policies = <<>>
    /\ ret = Call("init", None, None)
    /\ repeated = FALSE
    /\ displaced = 0

NextConcurrentMutation ==
    \/ \E policy \in ConcurrentPolicies : SeedUpsert(policy)
    \/ \E t \in MutatorThreads, call \in MutationCalls : MutationFilter(t, call)
    \/ \E t \in MutatorThreads : MutationAssign(t)
    \/ \E t \in MutatorThreads : MutationAppend(t)

SpecConcurrentMutation == InitConcurrentMutation /\ [][NextConcurrentMutation]_vars

-----------------------------------------------------------------------------
(* The canonical encoding on packets whose ids contain the separator        *)

\* Valid packets, some one field away from another, and two whose ids hold a
\* "|": packet_id has 8..64 characters and device_id 3..64, of any kind.
EncodingPackets ==
    {SignedFields("pkt-0001|dev", "dev-0001", <<>>),
     SignedFields("pkt-0001", "dev|dev-0001", <<>>),
     SignedFields("pkt-0001", "dev-0001", <<>>),
     SignedFields("pkt-0002", "dev-0001", <<>>),
     [SignedFields("pkt-0001", "dev-0001", <<>>) EXCEPT !.size_bytes = 129],
     [SignedFields("pkt-0001", "dev-0001", <<>>) EXCEPT !.priority = "high"],
     SignedFields("pkt-0001", "dev-0001", <<<<"'pulse'", "70">>>>)}

EncodingKeys ==
    {DeviceKey("dev-0001", "key-1", secret, "HS256", TRUE) :
        secret \in {PyBytes("secret-1"), PyBytes("secret-2")}}

\* The signatures that the keys give for the packets.
EncodingSignatures ==
    {sign_packet_hmac(packet, key)[2] : packet \in EncodingPackets, key \in EncodingKeys}

InitEncoding == InitSecurity

NextEncoding ==
    \/ \E packet \in EncodingPackets, key \in EncodingKeys : SignPacketHmac(packet, key)
    \/ \E packet \in EncodingPackets, key \in EncodingKeys :
          \E signature \in EncodingSignatures : VerifyPacketHmac(packet, signature, key)

SpecEncoding == InitEncoding /\ [][NextEncoding]_vars

-----------------------------------------------------------------------------
(* Properties of the policy registry and the routing engine                *)

\* Positions of the stored policies whose three predicates all accept the packet.
AcceptingPositions(ps, packet) ==
    {i \in 1..Len(ps) : PassesPredicates(ps[i], packet)}

Least(S) == CHOOSE i \in S : \A j \in S : i <= j

\* C1: match_for_packet(P) returns the policy at the smallest position among
\* the stored policies that accept P, and none exactly when no stored policy
\* accepts P.
C1_FirstMatchWins ==
    ret.op = "match_for_packet" =>
        LET accepting == AcceptingPositions(policies, ret.arg[1])
        IN  /\ (accepting = {}) <=> (ret.value[1] = None)
            /\ accepting /= {} => ret.value[1] = Some(policies[Least(accepting)])

\* Two different stored policies accept the packet and the earlier one was returned.
C1_Witness ==
    /\ ret.op = "match_for_packet"
    /\ \E i, j \in AcceptingPositions(policies, ret.arg[1]) :
          /\ i < j
          /\ policies[i].target_endpoint /= policies[j].target_endpoint
          /\ ret.value[1] = Some(policies[i])

\* The order of priorities as the claim states it.
ClaimedOrd == [low |-> 0, normal |-> 1, high |-> 2, critical |-> 3]

ClaimedAccepts(q, packet) ==
    /\ q.match_environment = None \/ q.match_environment = Some(packet.env)
    /\ q.match_domain = None \/ q.match_domain = Some(packet.domain)
    /\ \/ q.min_priority = None
       \/ ClaimedOrd[packet.priority] >= ClaimedOrd[q.min_priority[1]]

GroundMedicalHigh(q) ==
    /\ q.match_environment = Some("ground")
    /\ q.match_domain = Some("medical")
    /\ q.min_priority = Some("high")

\* C2: with a single policy q registered, q is matched (and routed with) iff
\* each predicate of q is unset or satisfied, priorities compared by
\* low=0 < normal=1 < high=2 < critical=3; a ground/medical packet is routed
\* with policy none at priority normal and with q at priority critical when q
\* is {ground, medical, min_priority=high}.
C2_AcceptsIff ==
    LET q == policies[1]
        packet == ret.arg[1]
    IN  /\ ret.op = "match_for_packet" =>
              ((ret.value[1] = Some(q)) <=> ClaimedAccepts(q, packet))
        /\ ret.op = "match_for_packet" /\ ~ClaimedAccepts(q, packet) => ret.value[1] = None
        /\ ret.op = "route" =>
              /\ (ret.value[1].policy = Some(q)) <=> ClaimedAccepts(q, packet)
              /\ ~ClaimedAccepts(q, packet) => ret.value[1].policy = None
        /\ (/\ ret.op = "route"
            /\ GroundMedicalHigh(q)
            /\ packet.env = "ground"
            /\ packet.domain = "medical") =>
              /\ packet.priority = "normal" => ret.value[1].policy = None
              /\ packet.priority = "critical" => ret.value[1].policy = Some(q)

\* The ground/medical/high policy was routed a critical ground/medical packet.
C2_Witness ==
    /\ ret.op = "route"
    /\ GroundMedicalHigh(policies[1])
    /\ ret.arg[1].env = "ground"
    /\ ret.arg[1].domain = "medical"
    /\ ret.arg[1].priority = "critical"
    /\ ret.value[1].policy = Some(policies[1])

OthersOf(ps, policy_id) == SelectSeq(ps, LAMBDA q : q.policy_id /= policy_id)

\* C3: after upsert(p), p is the last element, the policies of other ids are
\* all present in their previous relative order, and a packet accepted by p
\* and by a policy of another id is matched to the first such other policy,
\* never to p.
C3_ReplaceThenAppend ==
    /\ [][ret'.op = "upsert" =>
            /\ policies' /= <<>>
            /\ policies'[Len(policies')] = ret'.arg[1]
            /\ SubSeq(policies', 1, Len(policies') - 1) =
                  OthersOf(policies, ret'.arg[1].policy_id)
       ]_vars
    /\ [](ret.op = "upsert" =>
            \A packet \in RouterPackets :
                LET p == ret.arg[1]
                    accepting == AcceptingPositions(policies, packet) \ {Len(policies)}
                IN  (PassesPredicates(p, packet) /\ accepting /= {}) =>
                        /\ match_for_packet(policies, packet) = Some(policies[Least(accepting)])
                        /\ match_for_packet(policies, packet)[1].policy_id /= p.policy_id)

\* An upsert moved a policy from the first of three positions to the last, and
\* a packet all three accept is now matched to another policy.
C3_Witness ==
    /\ ret.op = "upsert"
    /\ displaced = 1
    /\ Len(policies) = 3
    /\ \E packet \in RouterPackets :
          /\ AcceptingPositions(policies, packet) = {1, 2, 3}
          /\ match_for_packet(policies, packet) = Some(policies[1])

\* C4: a packet that no stored policy accepts is routed with policy none,
\* target none, store_in_timeseries iff its type is telemetry, heartbeat or
\* alert, store_in_object_storage iff its type is alert, and the single reason
\* no_matching_policy.
C4_DefaultPath ==
    (ret.op = "route" /\ AcceptingPositions(policies, ret.arg[1]) = {}) =>
        LET d == ret.value[1]
        IN  /\ d.policy = None
            /\ d.target_endpoint = None
            /\ d.store_in_timeseries <=>
                  d.packet.packet_type \in {"telemetry", "heartbeat", "alert"}
            /\ d.store_in_object_storage <=> (d.packet.packet_type = "alert")
            /\ d.reasons = <<NoMatchingPolicyTag>>
            /\ d.packet = ret.arg[1]

\* An alert was routed by default although policies are registered.
C4_Witness ==
    /\ ret.op = "route"
    /\ policies /= <<>>
    /\ AcceptingPositions(policies, ret.arg[1]) = {}
    /\ ret.arg[1].packet_type = "alert"
    /\ ret.value[1].store_in_object_storage

\* C5: when match_for_packet(P) is a policy q, route(P) is a decision with
\* policy q, q's two storage flags, q's endpoint as a string (none when q has
\* none) and the single reason matched_policy:<q.policy_id>.
C5_MatchedPath ==
    (ret.op = "route" /\ match_for_packet(policies, ret.arg[1]) /= None) =>
        LET d == ret.value[1]
            q == match_for_packet(policies, ret.arg[1])[1]
        IN  /\ d.policy = Some(q)
            /\ d.store_in_timeseries = q.store_in_timeseries
            /\ d.store_in_object_storage = q.store_in_object_storage
            /\ q.target_endpoint = None => d.target_endpoint = None
            /\ q.target_endpoint /= None =>
                  d.target_endpoint = Some(q.target_endpoint[1].url)
            /\ d.reasons = <<MatchedPolicyTag(q.policy_id)>>
            /\ d.packet = ret.arg[1]

\* A telemetry packet was routed by a policy with no endpoint that stores in
\* object storage only.
C5_Witness ==
    /\ ret.op = "route"
    /\ ret.arg[1].packet_type = "telemetry"
    /\ ret.value[1].policy /= None
    /\ ret.value[1].target_endpoint = None
    /\ ret.value[1].store_in_object_storage
    /\ ~ret.value[1].store_in_timeseries

\* C6: every decision route() returns has should_forward = true.
C6_AlwaysForward ==
    ret.op = "route" => ret.value[1].should_forward = TRUE

\* A control packet was routed by default, after the registry had been filled.
C6_Witness ==
    /\ ret.op = "route"
    /\ ret.value[1].policy = None
    /\ ret.arg[1].packet_type = "control"
    /\ Len(policies) = 2
    /\ ret.value[1].should_forward

\* C7: route() and match_for_packet() leave the registry as it is, and a call
\* that repeats the previous call, nothing in between, returns an equal result.
C7_DeterministicPure ==
    [][ret'.op \in {"route", "match_for_packet"} =>
          /\ policies' = policies
          /\ (ret.op = ret'.op /\ ret.arg = ret'.arg) => ret'.value = ret.value
    ]_vars

\* route(P) was called twice in a row on a registry of three policies.
C7_Witness ==
    /\ ret.op = "route"
    /\ repeated
    /\ Len(policies) = 3
    /\ ret.value[1].policy = Some(policies[2])

-----------------------------------------------------------------------------
(* Properties of the offline queue                                         *)

RowIds(rows) == {r.id : r \in rows}

\* C8: every packet enqueued is still in the table, under the sequence number
\* it was given, unless a delete_many naming that number or a clear() has been
\* executed since; enqueue, dequeue_batch and count remove no row.
C8_NoLoss ==
    /\ [](\A i \in 1..Len(enqueued) :
            i \notin expunged => InsertedRow(i - 1, enqueued[i]) \in offline_packets)
    /\ [][ret'.op \in {"enqueue", "dequeue_batch", "count"} =>
            offline_packets \subseteq offline_packets']_vars

\* Three packets were enqueued, the second was deleted, and the other two are
\* read back.
C8_Witness ==
    /\ Len(enqueued) = 3
    /\ expunged = {2}
    /\ RowIds(offline_packets) = {1, 3}
    /\ ret.op = "dequeue_batch"
    /\ Len(ret.value[1]) = 2

\* C9: dequeue_batch changes neither the table nor its sequence, a
\* dequeue_batch(n) directly after a dequeue_batch(n) returns the same entries,
\* and count() is what it was before the call.
C9_NonDestructiveRead ==
    [][ret'.op = "dequeue_batch" =>
          /\ offline_packets' = offline_packets
          /\ sqlite_sequence' = sqlite_sequence
          /\ count(offline_packets') = count(offline_packets)
          /\ ret.op = "count" => count(offline_packets') = ret.value[1]
          /\ (ret.op = "dequeue_batch" /\ ret.arg = ret'.arg) => ret'.value = ret.value
    ]_vars

\* dequeue_batch(n) was called twice in a row and returned two entries.
C9_Witness ==
    /\ ret.op = "dequeue_batch"
    /\ repeated
    /\ Len(ret.value[1]) = 2
    /\ count(offline_packets) = 3

\* C10: for every integer limit, dequeue_batch(limit) returns at most limit
\* entries (none for a negative limit, the weakest reading), and they are the
\* entries with the smallest sequence numbers in the table, in strictly
\* ascending order.
C10_AtMostLimitSmallest ==
    ret.op = "dequeue_batch" =>
        LET limit == ret.arg[1]
            batch == ret.value[1]
            ids == {batch[i].internal_id : i \in 1..Len(batch)}
        IN  /\ Len(batch) <= (IF limit < 0 THEN 0 ELSE limit)
            /\ \A i \in 1..(Len(batch) - 1) : batch[i].internal_id < batch[i + 1].internal_id
            /\ ids \subseteq RowIds(offline_packets)
            /\ \A other \in RowIds(offline_packets) \ ids : \A id \in ids : id < other

\* C11: delete_many(ids) removes exactly the rows whose sequence number is in
\* ids and leaves every other row as it was; ids naming no row, and an empty
\* ids, change nothing; a second delete_many(ids) directly after the first
\* changes nothing more; and deleting the id of the only row leaves count() = 0.
C11_DeleteExactly ==
    [][ret'.op = "delete_many" =>
          LET ids == ret'.arg[1]
          IN  /\ offline_packets' = {r \in offline_packets : r.id \notin ids}
              /\ sqlite_sequence' = sqlite_sequence
              /\ ret'.value = None
              /\ ids \cap RowIds(offline_packets) = {} => offline_packets' = offline_packets
              /\ (ret.op = "delete_many" /\ ret.arg = ret'.arg) =>
                    offline_packets' = offline_packets
              /\ (Len(enqueued) = 1 /\ expunged = {} /\ 1 \in ids) =>
                    count(offline_packets') = 0
    ]_vars

\* delete_many({2, 4}) was called twice in a row on a table that held rows 1,
\* 2 and 3: row 2 is gone, rows 1 and 3 stay, and 4 never named a row.
C11_Witness ==
    /\ ret.op = "delete_many"
    /\ repeated
    /\ ret.arg[1] = {2, 4}
    /\ Len(enqueued) = 3
    /\ expunged = {2}
    /\ RowIds(offline_packets) = {1, 3}


\* C12: after enqueue(P) on an empty queue, a dequeue_batch with a limit of at
\* least one returns exactly one entry, and its packet equals P field for
\* field, the values of the data map included.
C12_RoundTrip ==
    (ret.op = "dequeue_batch" /\ Len(enqueued) = 1 /\ expunged = {} /\ ret.arg[1] >= 1) =>
        /\ Len(ret.value[1]) = 1
        /\ ret.value[1][1].internal_id = 1
        /\ ret.value[1][1].packet = enqueued[1]


\* The packets enqueued and not deleted since, by sequence number.
Surviving == {i \in 1..Len(enqueued) : i \notin expunged}

C13_AtLeastOnce ==
    /\ [](\A id \in 1..sqlite_sequence :
            id \notin RowIds(offline_packets) => id \in worker.forwarded)
    /\ [](worker.failed \subseteq RowIds(offline_packets))
    /\ [][(worker.pc = "idle" /\ worker'.pc = "forwarding" /\ worker'.limit = worker.limit) =>
            worker.failed \subseteq BatchIds(worker'.batch)]_vars

\* In one round entry 1 failed and entry 2 was forwarded and deleted; the next
\* read with the same limit returned entry 1 again, ahead of entry 3.
C13_Witness ==
    /\ worker.pc = "forwarding"
    /\ worker.limit = 2
    /\ RowIds(offline_packets) = {1, 3}
    /\ worker.forwarded = {2}
    /\ BatchIds(worker.batch) = {1, 3}
    /\ ret.op = "dequeue_batch"

C16_NoTornMatch ==
    [][(/\ threads["matcher"].pc = "iterating"
        /\ threads'["matcher"].pc = "idle"
        /\ \A o \in threads["matcher"].overlaps :
              /\ o.old /= None
              /\ PassesPredicates(o.old[1], threads["matcher"].packet)
              /\ PassesPredicates(o.new, threads["matcher"].packet))
       => ret'.value[1] \in {match_for_packet(v, threads["matcher"].packet) :
                                v \in threads["matcher"].views}
    ]_vars

\* The key that verifies the packets of this device, if the store has one.
ActiveKeyFor(packet) == get_active_key(keys_by_device, packet.device_id)

\* C17: for every packet P and every key K registered and active for P's
\* device, sign_packet_hmac(P, K) gives a signature, and verifying P with it
\* under K's registration succeeds: ok is true and there is no reason.
C17_SignVerifyRoundTrip ==
    (/\ ret.op = "sign_packet_hmac"
     /\ ActiveKeyFor(ret.arg[1][1]) = Some(ret.arg[1][2]))
    => /\ ret.value[1][1] = "return"
       /\ verify_packet_hmac(ret.arg[1][1], ret.value[1][2], ret.arg[1][2]) = Returned(TRUE)
       /\ validate_packet_entry(ret.arg[1][1], Some(ret.value[1][2]), keys_by_device, None)
             = Returned(EntryValidationResult(TRUE, None, None, FALSE, FALSE))

\* C18: for every packet P, key K registered and active for P's device, and
\* signature s other than sign_packet_hmac(P, K), the verification of (P, s)
\* fails with ok false and the reason signature_mismatch.
C18_WrongSignatureRejected ==
    (/\ ret.op = "validate_packet_entry"
     /\ ActiveKeyFor(ret.arg[1][1]) /= None
     /\ ret.arg[1][2] /= None
     /\ sign_packet_hmac(ret.arg[1][1], ActiveKeyFor(ret.arg[1][1])[1])[1] = "return"
     /\ sign_packet_hmac(ret.arg[1][1], ActiveKeyFor(ret.arg[1][1])[1]) /=
            Returned(ret.arg[1][2][1]))
    => /\ ret.value[1][1] = "return"
       /\ ret.value[1][2].ok = FALSE
       /\ ret.value[1][2].reason = Some("signature_mismatch")

\* C19: a verification for a device that has no registered key, or whose key
\* is inactive, fails with the reason unknown_device_or_key, whatever the
\* signature is.
C19_UnknownKeyRejected ==
    (/\ ret.op = "validate_packet_entry"
     /\ ActiveKeyFor(ret.arg[1][1]) = None)
    => /\ ret.value[1][1] = "return"
       /\ ret.value[1][2].ok = FALSE
       /\ ret.value[1][2].reason = Some("unknown_device_or_key")

\* C20: two packets that compare equal, their data maps filled in a different
\* order, have the same canonical bytes and, under one key, the same signature.
C20_OrderIndependent ==
    ret.op = "sign_packet_hmac" =>
        \A other \in SignedPackets :
            PacketEq(other, ret.arg[1][1]) =>
                /\ _serialize_packet_for_signing(other) =
                       _serialize_packet_for_signing(ret.arg[1][1])
                /\ sign_packet_hmac(other, ret.arg[1][2]) = ret.value[1]

\* The keys the store holds, active or not.
StoredKeys(keys) == {keys[d][1] : d \in {x \in DOMAIN keys : keys[x] /= None}}

\* C21: register(k) inserts or replaces only the entry of the pair
\* (k.device_id, k.key_id): a key registered earlier for the same device under
\* another key_id is still registered after the call, and a packet signed with
\* that earlier key still passes the gate.
C21_RotationKeepsEarlierKey ==
    [][ret'.op = "register" =>
          \A earlier \in StoredKeys(keys_by_device) :
              <<earlier.device_id, earlier.key_id>> /=
                  <<ret'.arg[1].device_id, ret'.arg[1].key_id>>
              => /\ earlier \in StoredKeys(keys_by_device')
                 /\ \A packet \in SignedPackets :
                       (/\ packet.device_id = earlier.device_id
                        /\ earlier.active
                        /\ sign_packet_hmac(packet, earlier)[1] = "return")
                       => validate_packet_entry(
                              packet, Some(sign_packet_hmac(packet, earlier)[2]),
                              keys_by_device', None)
                          = Returned(EntryValidationResult(TRUE, None, None, FALSE, FALSE))
    ]_vars

\* The store holds a key for the device and the key is not active.
Revoked(device_id) ==
    keys_by_device[device_id] /= None /\ ~keys_by_device[device_id][1].active

\* The signature of the packet under the key the store holds for its device,
\* whether the key is active or not.
StoredKeySignature(packet) ==
    sign_packet_hmac(packet, keys_by_device[packet.device_id][1])

\* C22: revoke(d) leaves d without an active key, and changes nothing when d
\* has no registered key; a device whose key is inactive stays so until
\* register is called with an active key for it; and while it is so,
\* get_active_key(d) returns None and validate_packet_entry rejects every
\* packet of d with ok false and blocked true, with no signature, with a wrong
\* one and with the correct one.
C22_SoftRevocation ==
    /\ [][ret'.op = "revoke" =>
             /\ keys_by_device[ret'.arg[1]] = None => keys_by_device' = keys_by_device
             /\ keys_by_device[ret'.arg[1]] /= None =>
                   /\ keys_by_device'[ret'.arg[1]] /= None
                   /\ ~keys_by_device'[ret'.arg[1]][1].active
             /\ \A d \in Devices \ {ret'.arg[1]} : keys_by_device'[d] = keys_by_device[d]
         ]_vars
    /\ [][\A d \in Devices :
             (/\ Revoked(d)
              /\ ~(/\ ret'.op = "register"
                   /\ ret'.arg[1].device_id = d
                   /\ ret'.arg[1].active))
             => /\ keys_by_device'[d] /= None
                /\ ~keys_by_device'[d][1].active
         ]_vars
    /\ [](/\ (ret.op = "get_active_key" /\ Revoked(ret.arg[1]))
             => ret.value = Some(None)
          /\ (ret.op = "validate_packet_entry" /\ Revoked(ret.arg[1][1].device_id))
             => /\ ret.value[1][1] = "return"
                /\ ret.value[1][2].ok = FALSE
                /\ ret.value[1][2].blocked = TRUE)

\* A packet of a device whose key was revoked is presented with the signature
\* that is correct under that key, and the gate has rejected it.
C22_Witness ==
    /\ ret.op = "validate_packet_entry"
    /\ Revoked(ret.arg[1][1].device_id)
    /\ StoredKeySignature(ret.arg[1][1])[1] = "return"
    /\ ret.arg[1][2] = Some(StoredKeySignature(ret.arg[1][1])[2])
    /\ ret.value[1][2].blocked

\* The scorer answers each of its calls with the same score.
Repeatable(scorer) ==
    scorer /= None => scorer[1][1] = scorer[1][2] /\ scorer[1][2] = scorer[1][3]

\* The packet's device has a stored key that is active, and the signature, if
\* one is supplied, is the digest of the packet under the secret of that key.
PassedKeyAndSignature(packet, signature) ==
    /\ keys_by_device[packet.device_id] /= None
    /\ keys_by_device[packet.device_id][1].active
    /\ signature /= None =>
          signature[1] = HexDigest(keys_by_device[packet.device_id][1].secret,
                                   _serialize_packet_for_signing(packet))

C25_EnqueueFailure ==
    [][ret'.op = "enqueue" =>
          IF ret'.value /= None
          THEN /\ ret'.value[1][1] = "raise"
               /\ offline_packets' = offline_packets
               /\ sqlite_sequence' = sqlite_sequence
          ELSE /\ sqlite_sequence' = sqlite_sequence + 1
               /\ offline_packets' =
                      offline_packets \cup {InsertedRow(sqlite_sequence, ret'.arg[1])}
               /\ Cardinality(offline_packets') = Cardinality(offline_packets) + 1
    ]_vars

\* An enqueue has failed on a table that holds one packet.
C25_Witness ==
    /\ ret.op = "enqueue"
    /\ ret.value /= None
    /\ ret.value[1][1] = "raise"
    /\ Cardinality(offline_packets) = 1
    /\ sqlite_sequence = 1

Authenticated(request) ==
    /\ request.x_eeia_key_id /= None
    /\ request.x_eeia_signature /= None
    /\ keys_by_device[request.packet.device_id] /= None
    /\ keys_by_device[request.packet.device_id][1].active
    /\ sign_packet_hmac(request.packet, keys_by_device[request.packet.device_id][1])
          = Returned(request.x_eeia_signature[1])

\* C27: when a request carries X-EEIA-Key-Id or X-EEIA-Signature, or
\* EEIA_SECURITY_ENFORCE is true, the request is routed only with both headers
\* present and a signature that verifies for the packet's device, and is
\* answered 401 otherwise.
C27_HeaderRequirement ==
    (/\ ret.op = "route_packet"
     /\ \/ ret.arg[1][1].x_eeia_key_id /= None
        \/ ret.arg[1][1].x_eeia_signature /= None
        \/ ret.arg[1][2])
    => /\ ret.value[1].status_code = 200 => Authenticated(ret.arg[1][1])
       /\ ~Authenticated(ret.arg[1][1]) => ret.value[1].status_code = 401

\* The fields of the packet are within the limits Packet(...) enforces.
WithinLimits(packet) ==
    /\ Len(packet.packet_id) >= 8 /\ Len(packet.packet_id) <= 64
    /\ Len(packet.device_id) >= 3 /\ Len(packet.device_id) <= 64
    /\ packet.size_bytes >= 0 /\ packet.size_bytes <= 10000000

\* C28: Packet(...) with an unknown field, with size_bytes below 0 or above
\* 10,000,000, with a packet_id of fewer than 8 or more than 64 characters, or
\* with a device_id of fewer than 3 or more than 64 characters raises and
\* constructs nothing, and no packet outside these limits is routed, signed
\* or enqueued.
C28_InvalidPacketNeverUsed ==
    /\ (ret.op = "Packet" /\ (ret.arg[1].extra /= {} \/ ~WithinLimits(ret.arg[1])))
       => ret.value[1][1] = "raise"
    /\ ret.op = "route" => WithinLimits(ret.arg[1])
    /\ ret.op = "sign_packet_hmac" => WithinLimits(ret.arg[1][1])
    /\ ret.op = "enqueue" => WithinLimits(ret.arg[1])

\* C29: no field of a constructed Packet or of a stored Policy changes after
\* construction: a packet held by a caller, by a decision or by the queue is
\* within the construction-time limits in every state, the object a caller
\* holds changes only by being constructed anew, and the stored policies
\* change only through upsert.
C29_ImmutableObjects ==
    /\ [](/\ constructed /= None => WithinLimits(constructed[1])
          /\ \A i \in 1..Len(enqueued) : WithinLimits(enqueued[i])
          /\ ret.op = "route" => WithinLimits(ret.value[1].packet))
    /\ [][(constructed /= None /\ ret'.op /= "Packet") => constructed' = constructed]_vars
    /\ [][ret'.op /= "upsert" => policies' = policies]_vars

\* C30: an enqueue that returns gives its packet a sequence number greater
\* than every number given before on that queue, the numbers of rows since
\* deleted or cleared and of rows written before a restart included: the
\* highest number given never goes down, whatever is called, and a row keeps
\* holding the packet its number was given to.  Hence every id a dequeue_batch
\* returns is below the number of any packet enqueued after it, and a
\* delete_many removes only rows of the ids it names.
C30_SequenceNeverReused ==
    /\ [][sqlite_sequence' >= sqlite_sequence]_vars
    /\ [][(ret'.op = "enqueue" /\ ret'.value = None) =>
             /\ Cardinality(offline_packets' \ offline_packets) = 1
             /\ \A r \in offline_packets' \ offline_packets :
                   /\ r.id > sqlite_sequence
                   /\ r.id = sqlite_sequence'
                   /\ r.id \notin expunged
                   /\ \A o \in offline_packets : r.id > o.id
         ]_vars
    /\ [][ret'.op = "dequeue_batch" =>
             \A i \in 1..Len(ret'.value[1]) :
                 ret'.value[1][i].internal_id <= sqlite_sequence'
         ]_vars
    /\ [][ret'.op = "delete_many" =>
             \A r \in offline_packets \ offline_packets' : r.id \in ret'.arg[1]
         ]_vars
    /\ [](/\ Len(enqueued) = sqlite_sequence
          /\ \A r \in offline_packets :
                /\ r.id \in 1..sqlite_sequence
                /\ r = InsertedRow(r.id - 1, enqueued[r.id]))

\* The rows numbered 1 and 2 were removed, and the packet enqueued after that
\* has the number 3.
C30_Witness ==
    /\ ret.op = "enqueue"
    /\ ret.value = None
    /\ expunged = {1, 2}
    /\ RowIds(offline_packets) = {3}
    /\ sqlite_sequence = 3

C32_UniquePolicyIds ==
    \A i, j \in 1..Len(policies) :
        policies[i].policy_id = policies[j].policy_id => i = j

\* The registry after one call made alone.
Applied(call, ps) ==
    IF call.op = "upsert" THEN upsert(ps, call.policy[1]) ELSE remove(ps, call.policy_id)

\* The registries that the two calls give when one is executed after the
\* other, in an order that keeps a call that had returned before the other
\* began in front of it.
SequentialOutcomes ==
    {Applied(mutators[OtherThread(first)].call,
             Applied(mutators[first].call, mutators[first].base)) :
        first \in {t \in MutatorThreads : OtherThread(t) \notin mutators[t].after}}

\* C33: when the upsert and remove calls of two threads have both returned,
\* the registry is what executing the two calls one after the other gives, in
\* one of the orders: two upserts of different ids are both stored, and two
\* upserts of one id leave exactly one policy of that id.
C33_LinearizableMutations ==
    (\A t \in MutatorThreads : mutators[t].pc = "done")
    => /\ policies \in SequentialOutcomes
       /\ \A t \in MutatorThreads :
             (/\ mutators[t].call.op = "upsert"
              /\ mutators[OtherThread(t)].call.op = "upsert")
             => Cardinality({i \in 1..Len(policies) :
                                policies[i].policy_id = mutators[t].call.policy_id}) = 1

\* C34: the canonical bytes of two valid packets that differ in a signed field
\* differ, so that a signature that verify_packet_hmac accepts for a packet
\* under a key is the signature of an equal packet under that key, and never
\* that of a different packet.
C34_InjectiveEncoding ==
    ret.op = "verify_packet_hmac" /\ ret.value[1] = Returned(TRUE) =>
        \A other \in EncodingPackets :
            ret.arg[1][2] = sign_packet_hmac(other, ret.arg[1][3])[2]
                => PacketEq(other, ret.arg[1][1])

\* C35: right after register(k), get_active_key(k.device_id) returns k, also
\* for a key object that an earlier revoke has made inactive, and the answer
\* for a device stays the same over every step that is neither a register nor
\* a revoke.
C35_RegistrationActivates ==
    /\ [](ret.op = "register" =>
            get_active_key(keys_by_device, ret.arg[1].device_id) = ret.arg)
    /\ [][ret'.op \notin {"register", "revoke"} =>
            \A d \in Devices :
                get_active_key(keys_by_device', d) = get_active_key(keys_by_device, d)]_vars

\* C36: every result of validate_packet_entry that reports a risk score s has
\* blocked exactly when s >= threshold_block and strict_audit exactly when
\* s >= threshold_audit, whatever the scorer answers to its successive calls.
C36_SelfConsistentResult ==
    (/\ ret.op = "validate_packet_entry"
     /\ ret.value[1][1] = "return"
     /\ ret.value[1][2].risk_score /= None)
    => LET result == ret.value[1][2]
       IN  /\ result.blocked <=> result.risk_score[1] >= threshold_block
           /\ result.strict_audit <=> result.risk_score[1] >= threshold_audit

\* C37: a request for which the handler computed a routing decision (its answer
\* is not a 401) updates the counters of the packet's (domain, env) by that
\* decision: total by one, routed or offline, ts_stored and obj_stored by the
\* decision's flags; and the answer is the one the handler gives whatever the
\* metrics call did.
C37_DecisionsCounted ==
    [][(ret'.op = "route_packet" /\ ret'.value[1].status_code /= 401) =>
          LET request == ret'.arg[1][1]
              decision == route(policies, request.packet)
          IN  /\ counters' = record_decision(counters, decision)
              /\ ret'.value[1] = route_packet(request, ret'.arg[1][2], policies,
                                              keys_by_device, ml_scorer)]_vars

\* The rows that have fewer than limit rows with smaller sequence numbers.
HeadOfLine(rows, limit) ==
    {r.id : r \in {q \in rows : Cardinality({o \in rows : o.id < q.id}) < limit}}

\* C38: in the redelivery loop with a fixed limit L >= 1, dequeue_batch(L)
\* returns exactly the entries that have fewer than L entries with smaller
\* sequence numbers in the queue, so an entry behind L older entries is not
\* returned while they stay; and when no entry's attempts fail for ever, every
\* entry in the queue is eventually forwarded and deleted.
C38_HeadOfLineRedelivery ==
    /\ [](ret.op = "dequeue_batch" =>
            BatchIds(worker.batch) = HeadOfLine(offline_packets, worker.limit))
    /\ \A id \in 1..MaxEnqueued :
          (id \in RowIds(offline_packets)) ~>
              (id \in worker.forwarded /\ id \in expunged /\ id \notin RowIds(offline_packets))

\* With the limit 1, entries 1 and 2 were forwarded and deleted one after the
\* other, and the read that follows returns entry 3, which had waited behind
\* them.
C38_Witness ==
    /\ worker.limit = 1
    /\ expunged = {1, 2}
    /\ worker.forwarded = {1, 2}
    /\ RowIds(offline_packets) = {3}
    /\ ret.op = "dequeue_batch"
    /\ BatchIds(worker.batch) = {3}

\* C39: every entry that enqueue has stored is readable: a dequeue_batch whose
\* limit covers it meets no payload that validation turns down, and returns
\* the covered entries.
C39_StoredIsReadable ==
    ret.op = "dequeue_batch" =>
        LET fetched == SqlLimit(OrderByIdAsc(offline_packets), ret.arg[1])
        IN  /\ Rejected(fetched) = {}
            /\ BatchIds(ret.value[1]) = {fetched[i].id : i \in 1..Len(fetched)}

====
